---- MODULE Spec2Model ----
(***************************************************************************)
(* Verification model of superhuman-cli: the in-memory token cache         *)
(* (getToken / extractToken), provider resolution (getProvider, cmdRead,   *)
(* launchSuperhuman) and the draft aggregation service                     *)
(* (DraftService.listDrafts).                                              *)
(*                                                                         *)
(* Time is counted in minutes: bufferMs (5 * 60 * 1000 ms) is 5 and the    *)
(* one-hour default lifetime (3600000 ms) is 60.                           *)
(***************************************************************************)
EXTENDS Integers, Sequences, FiniteSets, Bags, TLC

\* ------------------------------------------------------------------ bounds
MaxTime == 2          \* the clock runs from 1 to MaxTime
MaxCalls == 2         \* getToken calls that may be in progress at once

\* --------------------------------------------------------------- constants
bufferMs == 5         \* read.ts:313   5 * 60 * 1000 ms, in minutes
defaultTtl == 60      \* read.ts:271   3600000 ms, in minutes

\* accounts linked in the live client, and the keys a caller may ask for
Accounts == {"a@x.com", "b@x.com"}
Emails == Accounts \cup {"nobody@x.com"}

\* authData.expires as the client may hold it when it is read: 0 is "no
\* expires field", 1 is a credential the client has let run out (the clock
\* starts at 1), 6 is one that runs out exactly bufferMs after time 1.
AuthExpires == {0, 1, 6}

NoToken == [email |-> "", expires |-> 0]
NoHandoff == [kind |-> "none", email |-> "", token |-> NoToken]

VARIABLES
  now,          \* Date.now()
  tokenCache,   \* read.ts:292  Map<string, TokenInfo>
  clientUp,     \* the client process answers on the debugging port
  gaEmail,      \* window.GoogleAccount.emailAddress of the live client
  gaPending,    \* account the client has been asked to switch to ("" = none)
  gtCalls,      \* the getToken calls in progress: a bag of (position inside
                \* getToken / extractToken, email argument)
  handoff       \* what the step just taken gave to the caller of getToken

\* one run of the command-line program
VARIABLES
  rsTokens,     \* the token cache as loaded from tokens.json, in key order
  rsRunning,    \* isSuperhmanRunning: a client target answers on the port
  rsCmd,        \* the command being run
  rsAccount,    \* options.account ("" when --account is not given)
  rsThreadId,   \* whether options.threadId is given
  rsPc,         \* position of the run
  rsProbes,     \* the i of the readiness loop of launchSuperhuman
  rsCdp,        \* what the run has done to the client: probe, launch, connect
  rsOut         \* exit code, message, kind of provider and account resolved

\* one DraftService and one listDrafts call on it
VARIABLES
  dsArg,        \* what the constructor was given: "array", "object" ("" before)
  dsProviders,  \* this.providers: what each provider's listDrafts will do
  dsPc,         \* position of the listDrafts call
  dsOrder,      \* the providers whose promise has settled, in settling order
  dsOut         \* how the promise returned by listDrafts settled

\* draft mutations: one SuperhumanDraftProvider that lives across calls, and
\* one run of a draft command of the command-line program
VARIABLES
  dmStore,      \* the native backend: thread id of each native draft it holds
  dmCache,      \* SuperhumanDraftProvider.draftCache: thread id by draft id
  dmCmd,        \* the operation in progress: name, draft id, --thread, --native
  dmPc,         \* position of the operation
  dmFound,      \* existingDraft / draft: the draft looked up for this operation
  dmReqs,       \* the mutation requests the operation has sent
  dmOut         \* how the operation ended

\* the subject of a reply or a forward
VARIABLES
  sjIn,         \* the subject of the last message of the thread
  sjOp,         \* the function that builds the subject
  sjOut         \* its results: on sjIn, then on its own result

\* the recipients of a reply
VARIABLES
  thSnap,       \* what the thread gives: replyTo, allTo, allCc, myEmail
  thOptCc,      \* the caller's cc option, at the call
  thCallerCc,   \* the caller's cc list, now
  thOp,         \* the function that builds the reply, and its replyAll option
  thOut         \* its result: status, to, cc

\* the references of a reply
VARIABLES
  rfRaw,        \* rawJson.references of the last message of the thread, at the call
  rfStored,     \* rawJson.references of the last message, now
  rfLast,       \* the Message-ID of the last message, "" when it has none
  rfDone,       \* getThreadInfoForReply has returned
  rfOut         \* the references it returned

\* the dispatch of a reply that is sent at once
VARIABLES
  msEnv,        \* the account, the replyAll option and what the page holds
  msPc,         \* where sendReply is
  msCalls,      \* the backend requests made so far, with their outcomes
  msOut         \* the SendResult

\* the token file
VARIABLES
  auAccounts,   \* what listAccounts returns
  auPc,         \* where the command is
  auLeft,       \* the accounts cmdAuth has still to extract
  auMem,        \* the token cache in memory: email -> 0 (loaded), 1 (refreshed)
  auDisk,       \* the token file
  auOut         \* how the command ended

\* a reply, reply-all or forward driven through the client's compose form
VARIABLES
  flIn,         \* the function, its send flag, the Cc recipients to add, a body or none
  flDone,       \* the steps taken so far, each with its outcome
  flFinal,      \* what was invoked at the end: "none", "send" or "save"
  flOut         \* the ReplyResult: "none", "success" or "failure"

\* withRetry
VARIABLES
  wrIn,         \* maxRetries and baseDelay
  wrAttempt,    \* the loop variable
  wrPc,         \* "call", "sleep" or "done"
  wrResults,    \* what fn returned, invocation by invocation
  wrSlept,      \* the delays waited
  wrOut         \* what withRetry returned: "none", "null", a value, or "threw"

credVars == <<now, tokenCache, clientUp, gaEmail, gaPending, gtCalls, handoff>>
resVars == <<rsTokens, rsRunning, rsCmd, rsAccount, rsThreadId, rsPc, rsProbes, rsCdp, rsOut>>
dsVars == <<dsArg, dsProviders, dsPc, dsOrder, dsOut>>
dmVars == <<dmStore, dmCache, dmCmd, dmPc, dmFound, dmReqs, dmOut>>
sjVars == <<sjIn, sjOp, sjOut>>
thVars == <<thSnap, thOptCc, thCallerCc, thOp, thOut>>
rfVars == <<rfRaw, rfStored, rfLast, rfDone, rfOut>>
msVars == <<msEnv, msPc, msCalls, msOut>>
auVars == <<auAccounts, auPc, auLeft, auMem, auDisk, auOut>>
flVars == <<flIn, flDone, flFinal, flOut>>
wrVars == <<wrIn, wrAttempt, wrPc, wrResults, wrSlept, wrOut>>
vars == <<credVars, resVars, dsVars, dmVars, sjVars, thVars, rfVars, msVars, auVars, flVars, wrVars>>

\* what the operations of one component leave alone
notCred == <<resVars, dsVars, dmVars, sjVars, thVars, rfVars, msVars, auVars, flVars, wrVars>>
notRes == <<credVars, dsVars, dmVars, sjVars, thVars, rfVars, msVars, auVars, flVars, wrVars>>
notDs == <<credVars, resVars, dmVars, sjVars, thVars, rfVars, msVars, auVars, flVars, wrVars>>
notDm == <<credVars, resVars, dsVars, sjVars, thVars, rfVars, msVars, auVars, flVars, wrVars>>
notSj == <<credVars, resVars, dsVars, dmVars, thVars, rfVars, msVars, auVars, flVars, wrVars>>
notTh == <<credVars, resVars, dsVars, dmVars, sjVars, rfVars, msVars, auVars, flVars, wrVars>>
notRf == <<credVars, resVars, dsVars, dmVars, sjVars, thVars, msVars, auVars, flVars, wrVars>>
notMs == <<credVars, resVars, dsVars, dmVars, sjVars, thVars, rfVars, auVars, flVars, wrVars>>
notAu == <<credVars, resVars, dsVars, dmVars, sjVars, thVars, rfVars, msVars, flVars, wrVars>>
notFl == <<credVars, resVars, dsVars, dmVars, sjVars, thVars, rfVars, msVars, auVars, wrVars>>
notWr == <<credVars, resVars, dsVars, dmVars, sjVars, thVars, rfVars, msVars, auVars, flVars>>

isExpiredOrExpiring_Inclusive(cached, t) == cached.expires <= t + bufferMs

\* read.ts:314  cached.expires < Date.now() + bufferMs
isExpiredOrExpiring(cached, t) == cached.expires < t + bufferMs

\* read.ts:309-320  the cache check of getToken: TRUE when the cached
\* record is returned without extraction
CacheHit(cache, email, t) ==
  /\ email \in DOMAIN cache
  /\ ~isExpiredOrExpiring(cache[email], t)

\* read.ts:268-273  the value extractToken builds from the client's state
ExtractedValue(ga, expires, t) ==
  [email |-> ga,
   expires |-> IF expires # 0 THEN expires ELSE t + defaultTtl]

Call(pc, email) == [pc |-> pc, email |-> email]
CallStates == [pc : {"extract", "settle"}, email : Emails]

AfterMiss_Collapsed(calls, email) ==
  IF \E k \in BagToSet(calls) : k.email = email THEN "await" ELSE "extract"

\* read.ts:322-323  what a call does after a cache miss: it always awaits
\* its own extractToken, whatever the other calls in progress are doing
AfterMiss(calls, email) == "extract"

\* a call in progress moves on, or ends
Moved(calls, k, pc) == (calls (-) SetToBag({k})) (+) SetToBag({Call(pc, k.email)})
Ended_Retries(calls, k) == (calls (-) SetToBag({k})) (+) SetToBag({Call("extract", k.email)})
Ended(calls, k) == calls (-) SetToBag({k})

\* Map.prototype.set
MapSet(m, k, v) == [x \in (DOMAIN m) \cup {k} |-> IF x = k THEN v ELSE m[x]]

Returned(email, token, kind) == [kind |-> kind, email |-> email, token |-> token]
Pending(email) == [kind |-> "pending", email |-> email, token |-> NoToken]
Threw(email, msg) == [kind |-> msg, email |-> email, token |-> NoToken]

CredInit ==
  /\ now = 1
  /\ tokenCache = <<>>
  /\ clientUp = TRUE
  /\ gaEmail = "a@x.com"
  /\ gaPending = ""
  /\ gtCalls = EmptyBag
  /\ handoff = NoHandoff

\* read.ts:304-320  getToken up to its first await: a cache hit returns at
\* once, anything else goes on to extractToken
GetToken(email) ==
  /\ BagCardinality(gtCalls) < MaxCalls
  /\ IF CacheHit(tokenCache, email, now)
       THEN /\ handoff' = Returned(email, tokenCache[email], "cached")
            /\ UNCHANGED gtCalls
       ELSE /\ gtCalls' = gtCalls (+) SetToBag({Call(AfterMiss(gtCalls, email), email)})
            /\ handoff' = Pending(email)
  /\ UNCHANGED <<now, tokenCache, clientUp, gaEmail, gaPending>>
  /\ UNCHANGED notCred

\* read.ts:238-250  listAccounts, the account-exists check and
\* switchAccount: the client starts switching, the call goes on only when
\* switchResult.success
ExtractSwitch(k) ==
  /\ k.pc = "extract"
  /\ BagIn(k, gtCalls)
  /\ \/ /\ ~clientUp
        /\ handoff' = Threw(k.email, "no live session")
        /\ gtCalls' = Ended(gtCalls, k)
        /\ UNCHANGED gaPending
     \/ /\ clientUp
        /\ k.email \notin Accounts
        /\ handoff' = Threw(k.email, "Account not found")
        /\ gtCalls' = Ended(gtCalls, k)
        /\ UNCHANGED gaPending
     \/ /\ clientUp
        /\ k.email \in Accounts
        /\ gaPending' = (IF gaEmail = k.email THEN "" ELSE k.email)
        /\ gtCalls' = Moved(gtCalls, k, "settle")
        /\ handoff' = NoHandoff
     \/ /\ clientUp
        /\ k.email \in Accounts
        /\ handoff' = Threw(k.email, "Failed to switch to account")
        /\ gtCalls' = Ended(gtCalls, k)
        /\ UNCHANGED gaPending
  /\ UNCHANGED <<now, tokenCache, clientUp, gaEmail>>
  /\ UNCHANGED notCred

\* read.ts:253-288 and 323-328  the fixed one-second delay, Runtime.evaluate,
\* then the cache write and the return of getToken
ExtractEvaluate(k) ==
  /\ k.pc = "settle"
  /\ BagIn(k, gtCalls)
  /\ \/ /\ ~clientUp
        /\ handoff' = Threw(k.email, "no live session")
        /\ UNCHANGED tokenCache
     \/ /\ clientUp
        /\ handoff' = Threw(k.email, "Token extraction failed")
        /\ UNCHANGED tokenCache
     \/ /\ clientUp
        /\ \E expires \in AuthExpires :
             LET token == ExtractedValue(gaEmail, expires, now) IN
             /\ tokenCache' = MapSet(tokenCache, k.email, token)
             /\ handoff' = Returned(k.email, token, "extracted")
  /\ gtCalls' = Ended(gtCalls, k)
  /\ UNCHANGED <<now, clientUp, gaEmail, gaPending>>
  /\ UNCHANGED notCred

\* read.ts:335-337
clearTokenCache ==
  /\ tokenCache # <<>>
  /\ tokenCache' = <<>>
  /\ handoff' = NoHandoff
  /\ UNCHANGED <<now, clientUp, gaEmail, gaPending, gtCalls>>
  /\ UNCHANGED notCred

\* read.ts:343-345, used as in token-api.test.ts:108-112: the cached
\* record is stored again with its expires forced into the past
setTokenCacheForTest(email) ==
  /\ email \in DOMAIN tokenCache
  /\ tokenCache[email].expires # now - 1
  /\ tokenCache' = MapSet(tokenCache, email,
                          [tokenCache[email] EXCEPT !.expires = now - 1])
  /\ handoff' = NoHandoff
  /\ UNCHANGED <<now, clientUp, gaEmail, gaPending, gtCalls>>
  /\ UNCHANGED notCred

\* ---- the environment: the clock and the live client
Tick ==
  /\ now < MaxTime
  /\ now' = now + 1
  /\ handoff' = NoHandoff
  /\ UNCHANGED <<tokenCache, clientUp, gaEmail, gaPending, gtCalls>>
  /\ UNCHANGED notCred

\* the client finishes a pending account switch
ClientSettle ==
  /\ clientUp
  /\ gaPending # ""
  /\ gaEmail' = gaPending
  /\ gaPending' = ""
  /\ handoff' = NoHandoff
  /\ UNCHANGED <<now, tokenCache, clientUp, gtCalls>>
  /\ UNCHANGED notCred

\* the client process is quit, or started again
ClientQuit ==
  /\ clientUp
  /\ clientUp' = FALSE
  /\ gaPending' = ""
  /\ handoff' = NoHandoff
  /\ UNCHANGED <<now, tokenCache, gaEmail, gtCalls>>
  /\ UNCHANGED notCred

ClientStart ==
  /\ ~clientUp
  /\ clientUp' = TRUE
  /\ handoff' = NoHandoff
  /\ UNCHANGED <<now, tokenCache, gaEmail, gaPending, gtCalls>>
  /\ UNCHANGED notCred

CredNext ==
  \/ \E email \in Emails : GetToken(email)
  \/ \E k \in CallStates : ExtractSwitch(k)
  \/ \E k \in CallStates : ExtractEvaluate(k)
  \/ clearTokenCache
  \/ \E email \in Emails : setTokenCacheForTest(email)
  \/ Tick
  \/ ClientSettle
  \/ ClientQuit
  \/ ClientStart

\* ------------------------------------------------- claims on the token cache
HandedOver == handoff.kind \in {"cached", "extracted"}

\* C1 (as claimed): every record getToken hands to its caller has expires
\* strictly later than the time of the hand-off.
C1_NeverHandsExpired == HandedOver => handoff.token.expires > now

\* C2 (as claimed): a cached record is returned without a refresh only when
\* its expires is strictly greater than now + 5 minutes.
C2_CachedOnlyIfStrictlyBeyondBuffer ==
  handoff.kind = "cached" => handoff.token.expires > now + 5

\* C2 (amended): getToken returns the cached record without a refresh if and
\* only if an entry exists with expires >= now + 5 minutes; in every other
\* case it goes on to a refresh, and a refresh that succeeds overwrites the
\* cache entry of that key with the refreshed record.
C2_CachedIffNotWithinBuffer ==
  /\ handoff.kind = "cached" =>
        /\ handoff.email \in DOMAIN tokenCache
        /\ tokenCache[handoff.email] = handoff.token
        /\ handoff.token.expires >= now + 5
  /\ handoff.kind = "pending" =>
        \/ handoff.email \notin DOMAIN tokenCache
        \/ tokenCache[handoff.email].expires < now + 5
  /\ handoff.kind = "extracted" =>
        /\ handoff.email \in DOMAIN tokenCache
        /\ tokenCache[handoff.email] = handoff.token

\* a cached record exactly 5 minutes from expiry was returned as it is
C2_Witness ==
  /\ handoff.kind = "cached"
  /\ handoff.token.expires = now + 5

\* the number of getToken calls in progress for one key
InFlight(email) ==
  CopiesIn(Call("extract", email), gtCalls) + CopiesIn(Call("settle", email), gtCalls)
    + CopiesIn(Call("await", email), gtCalls)

\* C3 (as claimed): of the getToken calls in progress for one key, only one
\* runs a refresh.
C3_SingleRefreshInFlight ==
  \A email \in Emails :
    CopiesIn(Call("extract", email), gtCalls) + CopiesIn(Call("settle", email), gtCalls) <= 1

\* C3 (amended): every getToken call that finds the entry of its key missing
\* or stale runs its own refresh, also while another call for the same key
\* is refreshing; no call waits for the result of another call's refresh.
C3_EveryCallerRefreshes ==
  /\ \A k \in BagToSet(gtCalls) : k.pc \in {"extract", "settle"}
  /\ handoff.kind = "pending" => BagIn(Call("extract", handoff.email), gtCalls)

\* a second call has just started its own refresh of a key that is being
\* refreshed already
C3_Witness ==
  /\ handoff.kind = "pending"
  /\ InFlight(handoff.email) = 2
  /\ BagIn(Call("extract", handoff.email), gtCalls)
  /\ BagIn(Call("settle", handoff.email), gtCalls)

\* C5 (as claimed): getToken for an account that is in the cache never fails
\* for want of a live client session.
C5_RefreshNeedsNoSession ==
  handoff.kind = "no live session" => handoff.email \notin DOMAIN tokenCache

\* the ways a getToken call fails
FailureKinds ==
  {"no live session", "Account not found", "Failed to switch to account",
   "Token extraction failed"}
Extracting(calls) ==
  BagCardinality(calls) - CopiesIn(Call("settle", "a@x.com"), calls)
    - CopiesIn(Call("settle", "b@x.com"), calls)
    - CopiesIn(Call("settle", "nobody@x.com"), calls)

\* C25: within one getToken call at most one refresh attempt is made, and
\* when it fails the error goes to the caller and is not retried: a step
\* that fails ends the call, and a refresh attempt starts only with a new
\* call.
C25_OneAttemptNoRetry ==
  [][/\ handoff'.kind \in FailureKinds =>
          BagCardinality(gtCalls') = BagCardinality(gtCalls) - 1
     /\ Extracting(gtCalls') > Extracting(gtCalls) =>
          /\ handoff'.kind = "pending"
          /\ BagCardinality(gtCalls') = BagCardinality(gtCalls) + 1]_vars

\* the extraction of a call failed after the account switch and the caller
\* has the error, with no call left in progress
C25_Witness ==
  /\ handoff.kind = "Token extraction failed"
  /\ gtCalls = EmptyBag

\* C26: the cache holds at most one record per account email, and the
\* record stored under and returned for key e is a credential of account e,
\* also when the client has not finished switching accounts at the moment
\* the credential is read.
C26_RecordBelongsToKey ==
  /\ \A e \in DOMAIN tokenCache : tokenCache[e].email = e
  /\ HandedOver => handoff.token.email = handoff.email

\* ---------------------------------------------------------------------------
\* Provider resolution: one run of the command-line program
\* ---------------------------------------------------------------------------
LaunchPollAttempts == 30   \* part_000:61  for (let i = 0; i < 30; i++)

\* a cached record: the access token is unexpired ("fresh"), expired with a
\* refresh token the provider still accepts ("refreshable"), or expired and
\* not renewable ("dead"); sh says whether it carries idToken and userId
TokenStates == {"fresh", "refreshable", "dead"}
CachedEntries == [email : Accounts, state : TokenStates, sh : BOOLEAN]
NoCached == [found |-> FALSE, email |-> "", sh |-> FALSE]
NoOut == [code |-> -1, msg |-> "", provider |-> "none", email |-> ""]

Requests == Emails \cup {""}

HasEntry(tokens, email) == \E i \in 1 .. Len(tokens) : tokens[i].email = email
EntryOf(tokens, email) == tokens[CHOOSE i \in 1 .. Len(tokens) : tokens[i].email = email]

\* token-api: TRUE when the cached record of email has idToken and userId
hasCachedSuperhumanCredentials(tokens, email) ==
  HasEntry(tokens, email) /\ EntryOf(tokens, email).sh

\* token-api: the credential store's get on the loaded cache: an unexpired
\* record is returned, an expired one is renewed from its refresh token, and
\* no record comes back when there is none or the renewal fails
getCachedToken(tokens, email) ==
  IF HasEntry(tokens, email) /\ EntryOf(tokens, email).state # "dead"
    THEN [found |-> TRUE, email |-> email, sh |-> EntryOf(tokens, email).sh]
    ELSE NoCached

\* token-api: the keys of the cache, in insertion order
getCachedAccounts(tokens) == [i \in 1 .. Len(tokens) |-> tokens[i].email]

\* connection-provider: a pure-credential provider when the requested
\* account (or, with none requested, any cached account) has a usable
\* credential, otherwise null
resolveProvider(tokens, account) ==
  IF account # ""
    THEN getCachedToken(tokens, account)
    ELSE LET hits == {i \in 1 .. Len(tokens) : getCachedToken(tokens, tokens[i].email).found}
         IN IF hits = {} THEN NoCached
            ELSE getCachedToken(tokens, tokens[CHOOSE i \in hits : \A j \in hits : i <= j].email)

IsShToken(token) == token.found /\ token.sh

\* cli.ts:848-856  the loop over getCachedAccounts()
FirstCachedShToken(tokens) ==
  LET accounts == getCachedAccounts(tokens)
      hits == {i \in 1 .. Len(accounts) :
                 /\ hasCachedSuperhumanCredentials(tokens, accounts[i])
                 /\ IsShToken(getCachedToken(tokens, accounts[i]))}
  IN IF hits = {} THEN NoCached
     ELSE getCachedToken(tokens, accounts[CHOOSE i \in hits : \A j \in hits : i <= j])

resolveSuperhumanToken_AnyFirst(tokens, account) == FirstCachedShToken(tokens)

\* cli.ts:840-857 (and the same lookup at cli.ts:804-825): --account first,
\* then any cached account with Superhuman credentials, else null
resolveSuperhumanToken(tokens, account) ==
  IF /\ account # ""
     /\ hasCachedSuperhumanCredentials(tokens, account)
     /\ IsShToken(getCachedToken(tokens, account))
    THEN getCachedToken(tokens, account)
    ELSE FirstCachedShToken(tokens)

Exit(code, msg) == [code |-> code, msg |-> msg, provider |-> "none", email |-> ""]
WithProvider(kind, email) == [code |-> -1, msg |-> "", provider |-> kind, email |-> email]

\* the sequences of cached records with distinct keys
TokenFiles ==
  {<<>>} \cup {<<e>> : e \in CachedEntries}
         \cup {t \in CachedEntries \X CachedEntries : t[1].email # t[2].email}

ResInit ==
  /\ rsTokens \in TokenFiles
  /\ rsRunning \in BOOLEAN
  /\ rsCmd = "none"
  /\ rsAccount = ""
  /\ rsThreadId = FALSE
  /\ rsPc = "idle"
  /\ rsProbes = 0
  /\ rsCdp = {}
  /\ rsOut = NoOut

ResIdle ==
  /\ rsTokens = <<>>
  /\ rsRunning = FALSE
  /\ rsCmd = "none"
  /\ rsAccount = ""
  /\ rsThreadId = FALSE
  /\ rsPc = "idle"
  /\ rsProbes = 0
  /\ rsCdp = {}
  /\ rsOut = NoOut

\* what the old cmdRead did with no token: go on to getProvider's fallback
CmdRead_FallThroughToCdp(account, threadId) ==
  /\ rsPc = "idle"
  /\ rsCmd' = "read"
  /\ rsAccount' = account
  /\ rsThreadId' = threadId
  /\ IF ~threadId
       THEN rsPc' = "exit" /\ rsOut' = Exit(1, "Thread ID is required")
       ELSE LET token == resolveSuperhumanToken(rsTokens, account) IN
            IF ~token.found
              THEN rsPc' = "connect" /\ rsOut' = NoOut
              ELSE rsPc' = "fetch" /\ rsOut' = WithProvider("cached", token.email)
  /\ UNCHANGED <<rsTokens, rsRunning, rsProbes, rsCdp>>
  /\ UNCHANGED notRes

\* cli.ts:1555-1567  cmdRead up to the token it works with
CmdRead(account, threadId) ==
  /\ rsPc = "idle"
  /\ rsCmd' = "read"
  /\ rsAccount' = account
  /\ rsThreadId' = threadId
  /\ IF ~threadId
       THEN rsPc' = "exit" /\ rsOut' = Exit(1, "Thread ID is required")
       ELSE LET token == resolveSuperhumanToken(rsTokens, account) IN
            IF ~token.found
              THEN rsPc' = "exit" /\ rsOut' = Exit(1, "No cached credentials found")
              ELSE rsPc' = "fetch" /\ rsOut' = WithProvider("cached", token.email)
  /\ UNCHANGED <<rsTokens, rsRunning, rsProbes, rsCdp>>
  /\ UNCHANGED notRes

\* cli.ts:1569-1580  getThreadMessages with the cached token
FetchThread ==
  /\ rsPc = "fetch"
  /\ \/ rsPc' = "run" /\ rsOut' = rsOut
     \/ rsPc' = "exit" /\ rsOut' = Exit(1, "Failed to fetch thread")
  /\ UNCHANGED <<rsTokens, rsRunning, rsCmd, rsAccount, rsThreadId, rsProbes, rsCdp>>
  /\ UNCHANGED notRes

GetProvider_AlwaysConnect(account) ==
  /\ rsPc = "idle"
  /\ rsCmd' = "provider"
  /\ rsAccount' = account
  /\ rsThreadId' = FALSE
  /\ rsPc' = "connect" /\ rsOut' = NoOut
  /\ UNCHANGED <<rsTokens, rsRunning, rsProbes, rsCdp>>
  /\ UNCHANGED notRes

\* cli.ts:745-751  getProvider: the provider of resolveProvider when there is
\* one, otherwise checkConnection
GetProvider(account) ==
  /\ rsPc = "idle"
  /\ rsCmd' = "provider"
  /\ rsAccount' = account
  /\ rsThreadId' = FALSE
  /\ LET provider == resolveProvider(rsTokens, account) IN
     IF provider.found
       THEN rsPc' = "run" /\ rsOut' = WithProvider("cached", provider.email)
       ELSE rsPc' = "connect" /\ rsOut' = NoOut
  /\ UNCHANGED <<rsTokens, rsRunning, rsProbes, rsCdp>>
  /\ UNCHANGED notRes

\* cli.ts:799-828  resolveBackendUserInfo: cached credentials, otherwise
\* checkConnection
ResolveBackendUserInfo(account) ==
  /\ rsPc = "idle"
  /\ rsCmd' = "backend"
  /\ rsAccount' = account
  /\ rsThreadId' = FALSE
  /\ LET token == resolveSuperhumanToken(rsTokens, account) IN
     IF token.found
       THEN rsPc' = "run" /\ rsOut' = WithProvider("cached", token.email)
       ELSE rsPc' = "connect" /\ rsOut' = NoOut
  /\ UNCHANGED <<rsTokens, rsRunning, rsProbes, rsCdp>>
  /\ UNCHANGED notRes

\* cli.ts:728-738 and 752-757 (getProvider), cli.ts:829 (resolveBackendUserInfo):
\* checkConnection gave null
NoConnection(cmd) ==
  IF cmd = "provider"
    THEN Exit(1, "No cached tokens and could not connect to Superhuman")
    ELSE Exit(1, "Could not connect to Superhuman")

\* part_000:96  connectToSuperhuman probes for a running client
ConnectToSuperhuman ==
  /\ rsPc = "connect"
  /\ rsCdp' = rsCdp \cup {"probe"}
  /\ rsPc' = IF rsRunning THEN "attach" ELSE "launch"
  /\ UNCHANGED <<rsTokens, rsRunning, rsCmd, rsAccount, rsThreadId, rsProbes, rsOut>>
  /\ UNCHANGED notRes

\* part_000:43-58 and 72-75  launchSuperhuman: probe again, then spawn
LaunchSuperhuman ==
  /\ rsPc = "launch"
  /\ \/ /\ rsRunning
        /\ rsPc' = "attach"
        /\ UNCHANGED <<rsCdp, rsOut>>
     \/ /\ ~rsRunning
        /\ rsCdp' = rsCdp \cup {"launch"}
        /\ rsPc' = "poll"
        /\ UNCHANGED rsOut
     \/ /\ ~rsRunning
        /\ rsCdp' = rsCdp \cup {"launch"}
        /\ rsPc' = "exit"
        /\ rsOut' = NoConnection(rsCmd)
  /\ rsProbes' = 0
  /\ UNCHANGED <<rsTokens, rsRunning, rsCmd, rsAccount, rsThreadId>>
  /\ UNCHANGED notRes

PollExhausted_Never(i) == FALSE

\* part_000:61  the loop condition i < 30, negated
PollExhausted(i) == i >= LaunchPollAttempts

\* part_000:61-71  one round of the readiness loop: wait a second, probe
PollReady ==
  /\ rsPc = "poll"
  /\ rsProbes' = rsProbes + 1
  /\ IF rsRunning
       THEN rsPc' = "attach" /\ rsOut' = rsOut
       ELSE IF PollExhausted(rsProbes + 1)
              THEN rsPc' = "exit" /\ rsOut' = NoConnection(rsCmd)
              ELSE rsPc' = "poll" /\ rsOut' = rsOut
  /\ UNCHANGED <<rsTokens, rsRunning, rsCmd, rsAccount, rsThreadId, rsCdp>>
  /\ UNCHANGED notRes

\* part_000:103-130  the main page is looked up and attached to; cli.ts:758
\* and cli.ts:830-832 use the connection
Attach ==
  /\ rsPc = "attach"
  /\ rsCdp' = rsCdp \cup {"connect"}
  /\ \/ /\ rsRunning
        /\ rsPc' = "run"
        /\ \E e \in Accounts :
             rsOut' = WithProvider("cdp", IF rsCmd = "backend" THEN e ELSE "")
     \/ /\ rsPc' = "exit"
        /\ rsOut' = NoConnection(rsCmd)
  /\ UNCHANGED <<rsTokens, rsRunning, rsCmd, rsAccount, rsThreadId, rsProbes>>
  /\ UNCHANGED notRes

\* the client starts to answer on the debugging port
ClientComesUp ==
  /\ rsPc \in {"connect", "launch", "poll"}
  /\ ~rsRunning
  /\ rsRunning' = TRUE
  /\ UNCHANGED <<rsTokens, rsCmd, rsAccount, rsThreadId, rsPc, rsProbes, rsCdp, rsOut>>
  /\ UNCHANGED notRes

ResProgram ==
  \/ FetchThread
  \/ ConnectToSuperhuman
  \/ LaunchSuperhuman
  \/ PollReady
  \/ Attach

ResNext ==
  \/ \E account \in Requests, threadId \in BOOLEAN : CmdRead(account, threadId)
  \/ \E account \in Requests : GetProvider(account)
  \/ \E account \in Requests : ResolveBackendUserInfo(account)
  \/ FetchThread
  \/ ConnectToSuperhuman
  \/ LaunchSuperhuman
  \/ PollReady
  \/ Attach
  \/ ClientComesUp

\* ---------------------------------------------------------------------------
\* Properties of provider resolution
\* ---------------------------------------------------------------------------
Resolving == rsPc \in {"connect", "launch", "poll", "attach"}

\* a usable credential for the requested account or, with none requested,
\* for any cached account
HasUsable(tokens, account) ==
  \E i \in 1 .. Len(tokens) :
    /\ account # "" => tokens[i].email = account
    /\ tokens[i].state # "dead"

\* the same, for the commands that need the Superhuman idToken and userId
HasUsableSh(tokens, account) ==
  \E i \in 1 .. Len(tokens) :
    /\ account # "" => tokens[i].email = account
    /\ tokens[i].state # "dead"
    /\ tokens[i].sh

C6_RequestedAccountOnly ==
  (rsAccount # "" /\ rsOut.provider = "cached") => rsOut.email = rsAccount

\* C6 (amended): with an account requested, the credential of another account
\* is used only by the commands that resolve a Superhuman token (read and the
\* backend commands), only when the requested account has no usable
\* Superhuman credential, and it is then the first cached account that has one.
C6_OtherAccountOnlyAsFallback ==
  (rsAccount # "" /\ rsOut.provider = "cached" /\ rsOut.email # rsAccount)
  => /\ rsCmd \in {"read", "backend"}
     /\ ~\E i \in 1 .. Len(rsTokens) :
           /\ rsTokens[i].email = rsAccount
           /\ rsTokens[i].state # "dead"
           /\ rsTokens[i].sh
     /\ \E i \in 1 .. Len(rsTokens) :
           /\ rsTokens[i].email = rsOut.email
           /\ rsTokens[i].state # "dead"
           /\ rsTokens[i].sh
           /\ \A j \in 1 .. i - 1 : rsTokens[j].state = "dead" \/ ~rsTokens[j].sh

C6_Witness ==
  /\ rsCmd = "backend"
  /\ rsAccount = "b@x.com"
  /\ HasEntry(rsTokens, "b@x.com")
  /\ rsPc = "run"
  /\ rsOut = WithProvider("cached", "a@x.com")

\* what resolution through the client has settled on
Settled == rsPc \in {"run", "exit"}

\* C7: with no usable cached credential, resolution through the client
\* terminates and fails closed: the readiness loop probes at most
\* LaunchPollAttempts times, a provider over the client is returned only when
\* the client answers, a launched client that never answers ends in the
\* connection error with exit status 1, and every resolution in progress
\* settles.
C7_BoundedPollFailsClosed ==
  /\ [](/\ rsProbes <= LaunchPollAttempts
        /\ (rsPc = "run" /\ rsOut.provider = "cdp") => rsRunning
        /\ (Settled /\ "launch" \in rsCdp /\ ~rsRunning)
             => rsOut = NoConnection(rsCmd) /\ rsOut.code = 1)
  /\ (Resolving ~> Settled)

C7_Witness ==
  /\ rsCmd = "provider"
  /\ ~HasUsable(rsTokens, rsAccount)
  /\ ~rsRunning
  /\ rsCdp = {"probe", "launch"}
  /\ rsProbes = LaunchPollAttempts
  /\ rsPc = "exit"
  /\ rsOut = Exit(1, "No cached tokens and could not connect to Superhuman")

\* C8: the read command never probes, launches or connects to the client,
\* and with no cached Superhuman credential it exits with status 1 and, for
\* a thread that was named, the missing-credentials error.
C8_ReadWithoutCredentialsExits ==
  rsCmd = "read"
  => /\ rsCdp = {}
     /\ ~Resolving
     /\ rsOut.provider # "cdp"
     /\ (~\E i \in 1 .. Len(rsTokens) : rsTokens[i].state # "dead" /\ rsTokens[i].sh)
          => /\ rsPc = "exit"
             /\ rsOut.code = 1
             /\ rsThreadId => rsOut = Exit(1, "No cached credentials found")

C8_Witness ==
  /\ rsCmd = "read"
  /\ rsAccount = "nobody@x.com"
  /\ rsThreadId
  /\ rsTokens = <<>>
  /\ ~rsRunning
  /\ rsPc = "exit"
  /\ rsOut = Exit(1, "No cached credentials found")
  /\ rsCdp = {}

\* ---------------------------------------------------------------------------
\* DraftService
\* ---------------------------------------------------------------------------
MaxProviders == 3     \* providers a DraftService is constructed with
MaxDrafts == 2        \* drafts one provider returns

\* what a provider's listDrafts promise will do: reject, or resolve with n
\* drafts
ProviderBehaviours ==
  {[ok |-> FALSE, n |-> 0]} \cup {[ok |-> TRUE, n |-> n] : n \in 0 .. MaxDrafts}

\* the drafts of the i-th provider: the k-th one has id <<i, k>>
DraftsOf(i, p) == [k \in 1 .. p.n |-> <<i, k>>]

NoResult == [status |-> "none", drafts |-> <<>>]

\* the arrays of providers a DraftService may be constructed with
ProviderLists == UNION {[1 .. m -> ProviderBehaviours] : m \in 0 .. MaxProviders}

\* before new DraftService(...)
DsInit ==
  /\ dsArg = ""
  /\ dsProviders = <<>>
  /\ dsPc = "new"
  /\ dsOrder = <<>>
  /\ dsOut = NoResult

DsIdle ==
  /\ dsArg = "array"
  /\ dsProviders = <<>>
  /\ dsPc = "idle"
  /\ dsOrder = <<>>
  /\ dsOut = NoResult

Range(f) == {f[x] : x \in DOMAIN f}

SettledResults_SettlingOrder(providers, order) ==
  [x \in 1 .. Len(order) |->
     [status |-> IF providers[order[x]].ok THEN "fulfilled" ELSE "rejected",
      value |-> DraftsOf(order[x], providers[order[x]])]]

\* draft-service.ts:46-48  Promise.allSettled: one result per provider, at the
\* provider's index, whatever the order the promises settled in
SettledResults(providers, order) ==
  [i \in 1 .. Len(providers) |->
     [status |-> IF providers[i].ok THEN "fulfilled" ELSE "rejected",
      value |-> DraftsOf(i, providers[i])]]

\* draft-service.ts:50-56  the loop that pushes the fulfilled values
RECURSIVE CollectDrafts(_)
CollectDrafts(results) ==
  IF results = <<>> THEN <<>>
  ELSE LET result == Head(results) IN
       (IF result.status = "fulfilled" THEN result.value ELSE <<>>)
         \o CollectDrafts(Tail(results))

\* Promise.all in place of Promise.allSettled
ListDraftsOutcome_FailFast(results) ==
  IF \E i \in 1 .. Len(results) : results[i].status = "rejected"
    THEN [status |-> "rejected", drafts |-> <<>>]
    ELSE [status |-> "resolved", drafts |-> CollectDrafts(results)]

\* draft-service.ts:45-59  how the promise of listDrafts settles
ListDraftsOutcome(results) ==
  [status |-> "resolved", drafts |-> CollectDrafts(results)]

\* draft-service.ts:37-39  this.providers = providers, whatever providers
\* is; arg says whether it is an array (providers is then its content)
constructor(arg, providers) ==
  /\ dsPc = "new"
  /\ dsArg' = arg
  /\ dsProviders' = providers
  /\ dsPc' = "idle"
  /\ UNCHANGED <<dsOrder, dsOut>>
  /\ UNCHANGED notDs

\* draft-service.ts:45-48  listDrafts calls every provider and awaits; on
\* a this.providers without map the call throws inside the async function,
\* so the promise it returned rejects with a TypeError
ListDrafts ==
  /\ dsPc = "idle"
  /\ IF dsArg = "array"
       THEN dsPc' = "waiting" /\ dsOut' = dsOut
       ELSE dsPc' = "failed" /\ dsOut' = [status |-> "TypeError", drafts |-> <<>>]
  /\ UNCHANGED <<dsArg, dsProviders, dsOrder>>
  /\ UNCHANGED notDs

\* the promise of the i-th provider settles
ProviderSettles(i) ==
  /\ dsPc = "waiting"
  /\ i \in 1 .. Len(dsProviders)
  /\ i \notin Range(dsOrder)
  /\ dsOrder' = Append(dsOrder, i)
  /\ UNCHANGED <<dsArg, dsProviders, dsPc, dsOut>>
  /\ UNCHANGED notDs

\* draft-service.ts:46-58  every promise has settled: listDrafts goes on
ListDraftsJoin ==
  /\ dsPc = "waiting"
  /\ Len(dsOrder) = Len(dsProviders)
  /\ dsOut' = ListDraftsOutcome(SettledResults(dsProviders, dsOrder))
  /\ dsPc' = "done"
  /\ UNCHANGED <<dsArg, dsProviders, dsOrder>>
  /\ UNCHANGED notDs

DsNext ==
  \/ \E providers \in ProviderLists : constructor("array", providers)
  \/ constructor("object", <<>>)
  \/ ListDrafts
  \/ \E i \in 1 .. MaxProviders : ProviderSettles(i)
  \/ ListDraftsJoin

\* ---------------------------------------------------------------------------
\* Properties of DraftService.listDrafts
\* ---------------------------------------------------------------------------
\* draft <<i, k>> comes before draft <<j, l>> in registration order
Before(a, b) == a[1] < b[1] \/ (a[1] = b[1] /\ a[2] < b[2])

\* C9: whatever the registered providers do and in whatever order their
\* promises settle, listDrafts resolves, and its list holds exactly the drafts
\* of the providers that resolved, each once, in registration order and in
\* each provider's own order; a provider that rejected contributes nothing.
C9_ConcatInRegistrationOrder ==
  dsPc = "done"
  => /\ dsOut.status = "resolved"
     /\ \A x \in 1 .. Len(dsOut.drafts) :
          LET d == dsOut.drafts[x] IN
          /\ d[1] \in 1 .. Len(dsProviders)
          /\ dsProviders[d[1]].ok
          /\ d[2] \in 1 .. dsProviders[d[1]].n
     /\ \A i \in 1 .. Len(dsProviders) :
          dsProviders[i].ok =>
            \A k \in 1 .. dsProviders[i].n :
              \E x \in 1 .. Len(dsOut.drafts) : dsOut.drafts[x] = <<i, k>>
     /\ \A x, y \in 1 .. Len(dsOut.drafts) :
          x < y => Before(dsOut.drafts[x], dsOut.drafts[y])

C9_Witness ==
  /\ dsPc = "done"
  /\ Len(dsProviders) = 3
  /\ dsProviders[1] = [ok |-> TRUE, n |-> 2]
  /\ dsProviders[2] = [ok |-> FALSE, n |-> 0]
  /\ dsProviders[3] = [ok |-> TRUE, n |-> 1]
  /\ dsOrder = <<3, 2, 1>>
  /\ dsOut = [status |-> "resolved", drafts |-> <<<<1, 1>>, <<1, 2>>, <<3, 1>>>>]

\* C11 (as claimed): a DraftService constructed with an argument that is not
\* an array does not come to exist: the constructor throws a TypeError, and
\* no listDrafts call is made on it.
C11_NonArrayThrowsAtConstruction ==
  dsArg = "object" => (dsPc = "threw" /\ dsOut.status = "TypeError")

\* C10: when every registered provider rejects, and when no provider is
\* registered, listDrafts resolves with the empty list.
C10_AllRejectedGivesEmptyList ==
  (dsPc = "done" /\ \A i \in 1 .. Len(dsProviders) : ~dsProviders[i].ok)
  => dsOut = [status |-> "resolved", drafts |-> <<>>]

C10_Witness ==
  /\ dsPc = "done"
  /\ Len(dsProviders) = 2
  /\ \A i \in 1 .. Len(dsProviders) : ~dsProviders[i].ok
  /\ Len(dsOrder) = 2
  /\ dsOut = [status |-> "resolved", drafts |-> <<>>]

\* ---------------------------------------------------------------------------
\* Draft mutations: SuperhumanDraftProvider.updateDraft / deleteDraft and the
\* draft update, draft delete and draft send commands
\* ---------------------------------------------------------------------------
\* strings the code looks into are sequences of characters
NativePrefix == <<"d", "r", "a", "f", "t", "0", "0">>     \* "draft00"

\* String.prototype.startsWith
startsWith(s, prefix) ==
  Len(s) >= Len(prefix) /\ SubSeq(s, 1, Len(prefix)) = prefix

NativeIds == {NativePrefix \o <<"1">>, NativePrefix \o <<"2">>}
\* ids of the mail provider's drafts; the second is not a native id
MailIds == {<<"r", "1">>, <<"d", "r", "a", "f", "t", "1">>}
DraftIds == NativeIds \cup MailIds

NoThread == <<>>                              \* threadId undefined, or no --thread
ThreadIds == {<<"t", "1">>, <<"t", "2">>}

NoCmd == [name |-> "none", id |-> <<>>, thread |-> NoThread, native |-> FALSE]
NoDraft == [known |-> FALSE, id |-> <<>>, thread |-> NoThread]
NoEnd == [kind |-> "none", msg |-> ""]

\* what the native backend may hold: each native draft in a thread, or in a
\* thread item that carries no id
Stores == UNION {[ids -> ThreadIds \cup {NoThread}] : ids \in SUBSET NativeIds}

DmInit ==
  /\ dmStore \in Stores
  /\ dmCache = <<>>
  /\ dmCmd = NoCmd
  /\ dmPc = "idle"
  /\ dmFound = NoDraft
  /\ dmReqs = {}
  /\ dmOut = NoEnd

DmIdle ==
  /\ dmStore = <<>>
  /\ dmCache = <<>>
  /\ dmCmd = NoCmd
  /\ dmPc = "idle"
  /\ dmFound = NoDraft
  /\ dmReqs = {}
  /\ dmOut = NoEnd

Request(target, op, id, thread) ==
  [target |-> target, op |-> op, id |-> id, thread |-> thread]
Found(id, thread) == [known |-> TRUE, id |-> id, thread |-> thread]
End(kind, msg) == [kind |-> kind, msg |-> msg]

MapDelete(m, k) == [x \in (DOMAIN m) \ {k} |-> m[x]]

\* part_001:84-87  this.draftCache.set(draft.id, draft) for every draft listed
CacheAll(cache, drafts) ==
  [x \in (DOMAIN cache) \cup (DOMAIN drafts) |->
     IF x \in DOMAIN drafts THEN drafts[x] ELSE cache[x]]

\* the native backend deletes the draft it holds at thread/draft
BackendDelete(store, id, thread) ==
  IF id \in DOMAIN store /\ store[id] = thread THEN MapDelete(store, id) ELSE store

isNativeDraft_Never(draftId) == FALSE

\* cli.ts:998, 1186-1187, 1256  draftId.startsWith("draft00")
isNativeDraft(draftId) == startsWith(draftId, NativePrefix)

ProviderOps == {"updateDraft", "deleteDraft"}

\* part_001:103-105 and 127-131 (166-168 and 173-176): the draft looked up
\* must exist and carry a threadId before the mutation is sent
AfterLookup(draft, id) ==
  IF ~draft.known THEN [pc |-> "done", out |-> End("throw", "not found")]
  ELSE IF draft.thread = NoThread
    THEN [pc |-> "done", out |-> End("throw", "missing threadId")]
    ELSE [pc |-> "mutate", out |-> NoEnd]

\* part_001:93-101 and 145-153  updateDraft / deleteDraft of the provider up
\* to the first await: the draft is taken from the cache when it is there
ProviderCall(op, id) ==
  /\ dmPc = "idle"
  /\ dmCmd' = [name |-> op, id |-> id, thread |-> NoThread, native |-> FALSE]
  /\ dmReqs' = {}
  /\ IF id \in DOMAIN dmCache
       THEN LET draft == Found(id, dmCache[id]) IN
            /\ dmFound' = draft
            /\ dmPc' = AfterLookup(draft, id).pc
            /\ dmOut' = AfterLookup(draft, id).out
       ELSE dmFound' = NoDraft /\ dmPc' = "list" /\ dmOut' = NoEnd
  /\ UNCHANGED <<dmStore, dmCache>>
  /\ UNCHANGED notDm

updateDraft(id) == ProviderCall("updateDraft", id)
deleteDraft(id) == ProviderCall("deleteDraft", id)

\* part_001:57-90 called at part_001:99 and 151: listDrafts gives [] without
\* a token or on a failed response, otherwise the drafts of the backend,
\* which it stores in the cache; then drafts.find
ProviderListDrafts ==
  /\ dmPc = "list"
  /\ dmCmd.name \in ProviderOps
  /\ \E ok \in BOOLEAN :
       LET drafts == IF ok THEN dmStore ELSE <<>>
           draft == IF dmCmd.id \in DOMAIN drafts
                      THEN Found(dmCmd.id, drafts[dmCmd.id]) ELSE NoDraft
       IN /\ dmCache' = CacheAll(dmCache, drafts)
          /\ dmFound' = draft
          /\ dmPc' = AfterLookup(draft, dmCmd.id).pc
          /\ dmOut' = AfterLookup(draft, dmCmd.id).out
  /\ UNCHANGED <<dmStore, dmCmd, dmReqs>>
  /\ UNCHANGED notDm

CacheAfterMutation_Eager(cache, op, id, draft, returned) ==
  IF op = "deleteDraft" THEN MapDelete(cache, id) ELSE MapSet(cache, id, draft.thread)

\* part_001:134-140 and 179-182: the cache is written after the awaited
\* backend call returned; a call that throws leaves updateDraft / deleteDraft
\* before the cache is touched
CacheAfterMutation(cache, op, id, draft, returned) ==
  IF ~returned THEN cache
  ELSE IF op = "deleteDraft" THEN MapDelete(cache, id)
                             ELSE MapSet(cache, id, draft.thread)

\* part_001:133-141 and 178-184  the request to the backend, then the cache
ProviderMutation ==
  /\ dmPc = "mutate"
  /\ dmCmd.name \in ProviderOps
  /\ dmReqs' = dmReqs \cup {Request("native", dmCmd.name, dmCmd.id, dmFound.thread)}
  /\ \/ /\ dmOut' = End("ok", "")
        /\ dmCache' = CacheAfterMutation(dmCache, dmCmd.name, dmCmd.id, dmFound, TRUE)
        /\ dmStore' = IF dmCmd.name = "deleteDraft"
                        THEN BackendDelete(dmStore, dmCmd.id, dmFound.thread)
                        ELSE dmStore
     \/ /\ dmOut' = End("throw", "backend")
        /\ dmCache' = CacheAfterMutation(dmCache, dmCmd.name, dmCmd.id, dmFound, FALSE)
        /\ UNCHANGED dmStore
  /\ dmPc' = "done"
  /\ UNCHANGED <<dmCmd, dmFound>>
  /\ UNCHANGED notDm

CliOps == {"draft update", "draft delete"}

\* cli.ts:994-1014 and 1057  cmdDraft with --update: the flag check, then
\* the native path for a native id and the provider path for any other
CmdDraft(id, native) ==
  /\ dmPc = "idle"
  /\ dmCmd' = [name |-> "draft update", id |-> id, thread |-> NoThread, native |-> native]
  /\ dmReqs' = {}
  /\ dmFound' = NoDraft
  /\ IF native /\ ~isNativeDraft(id)
       THEN dmPc' = "done" /\ dmOut' = End("exit 1", "--native flag is only valid for native ids")
       ELSE IF native \/ isNativeDraft(id)
         THEN \/ dmPc' = "cliList" /\ dmOut' = NoEnd
              \/ dmPc' = "done" /\ dmOut' = End("exit 1", "No cached Superhuman credentials found")
         ELSE dmPc' = "mail" /\ dmOut' = NoEnd
  /\ UNCHANGED <<dmStore, dmCache>>
  /\ UNCHANGED notDm

\* cli.ts:1176-1197 and 1222-1224  cmdDeleteDraft for one id of draftIds:
\* native ids go to the native path, the others to the provider path
CmdDeleteDraft(id) ==
  /\ dmPc = "idle"
  /\ dmCmd' = [name |-> "draft delete", id |-> id, thread |-> NoThread, native |-> FALSE]
  /\ dmReqs' = {}
  /\ dmFound' = NoDraft
  /\ IF isNativeDraft(id)
       THEN \/ dmPc' = "cliList" /\ dmOut' = NoEnd
            \/ dmPc' = "done" /\ dmOut' = End("exit 1", "No cached Superhuman credentials found")
       ELSE dmPc' = "mail" /\ dmOut' = NoEnd
  /\ UNCHANGED <<dmStore, dmCache>>
  /\ UNCHANGED notDm

\* cli.ts:1018-1027 and 1200-1211  a new provider in a new DraftService is
\* listed (a failed listing gives []), then drafts.find: cmdDraft exits when
\* the draft is not there, cmdDeleteDraft prints the error and goes on
CliListDrafts ==
  /\ dmPc = "cliList"
  /\ \E ok \in BOOLEAN :
       LET drafts == IF ok THEN dmStore ELSE <<>> IN
       IF dmCmd.id \in DOMAIN drafts
         THEN /\ dmFound' = Found(dmCmd.id, drafts[dmCmd.id])
              /\ dmPc' = "cliMutate"
              /\ dmOut' = NoEnd
         ELSE /\ dmFound' = NoDraft
              /\ dmPc' = "done"
              /\ dmOut' = IF dmCmd.name = "draft update"
                            THEN End("exit 1", "not found")
                            ELSE End("exit 0", "not found")
  /\ UNCHANGED <<dmStore, dmCache, dmCmd, dmReqs>>
  /\ UNCHANGED notDm

\* cli.ts:1033-1046 and 1213-1219  updateDraftWithUserInfo /
\* deleteDraftWithUserInfo with draft.threadId as it was listed
CliMutation ==
  /\ dmPc = "cliMutate"
  /\ dmReqs' = dmReqs \cup
       {Request("native", IF dmCmd.name = "draft update" THEN "updateDraft" ELSE "deleteDraft",
                dmCmd.id, dmFound.thread)}
  /\ \/ /\ dmOut' = End("exit 0", "")
        /\ dmStore' = IF dmCmd.name = "draft delete"
                        THEN BackendDelete(dmStore, dmCmd.id, dmFound.thread)
                        ELSE dmStore
     \/ /\ dmOut' = IF dmCmd.name = "draft update"
                      THEN End("exit 1", "backend") ELSE End("exit 0", "Failed to delete native draft")
        /\ UNCHANGED dmStore
  /\ dmPc' = "done"
  /\ UNCHANGED <<dmCache, dmCmd, dmFound>>
  /\ UNCHANGED notDm

\* cli.ts:1050-1078 and 1223-1238  getProvider, then updateDraftViaProvider /
\* deleteDraftViaProvider on the mail provider
MailMutation ==
  /\ dmPc = "mail"
  /\ \/ /\ dmOut' = End("exit 1", "No cached tokens and could not connect to Superhuman")
        /\ UNCHANGED dmReqs
     \/ /\ dmReqs' = dmReqs \cup
             {Request("mail", IF dmCmd.name = "draft update" THEN "updateDraft" ELSE "deleteDraft",
                      dmCmd.id, NoThread)}
        /\ \E success \in BOOLEAN :
             dmOut' = End("exit 0", IF success THEN "" ELSE "Failed")
  /\ dmPc' = "done"
  /\ UNCHANGED <<dmStore, dmCache, dmCmd, dmFound>>
  /\ UNCHANGED notDm

\* cli.ts:1242-1289  cmdSendDraft up to sendDraftSuperhuman: the draft id
\* must be native and the account's credentials cached
CmdSendDraft(id, thread) ==
  /\ dmPc = "idle"
  /\ dmCmd' = [name |-> "draft send", id |-> id, thread |-> thread, native |-> FALSE]
  /\ dmReqs' = {}
  /\ dmFound' = NoDraft
  /\ IF ~isNativeDraft(id)
       THEN dmPc' = "done" /\ dmOut' = End("exit 1", "Invalid draft ID")
       ELSE \/ dmPc' = "send" /\ dmOut' = NoEnd
            \/ dmPc' = "done" /\ dmOut' = End("exit 1", "No cached credentials")
  /\ UNCHANGED <<dmStore, dmCache>>
  /\ UNCHANGED notDm

\* cli.ts:1305-1334  sendDraftSuperhuman; after a successful send the draft
\* is deleted at options.sendDraftThreadId || draftId
SendDraft ==
  /\ dmPc = "send"
  /\ \/ /\ dmOut' = End("exit 1", "Failed to send draft")
        /\ UNCHANGED <<dmReqs, dmStore>>
     \/ LET threadId == IF dmCmd.thread # NoThread THEN dmCmd.thread ELSE dmCmd.id IN
        /\ dmReqs' = dmReqs \cup {Request("native", "deleteDraft", dmCmd.id, threadId)}
        /\ dmOut' = End("exit 0", "")
        /\ \/ dmStore' = BackendDelete(dmStore, dmCmd.id, threadId)
           \/ UNCHANGED dmStore
  /\ dmPc' = "done"
  /\ UNCHANGED <<dmCache, dmCmd, dmFound>>
  /\ UNCHANGED notDm

\* the operation is over; the provider and the backend stay
DmReturn ==
  /\ dmPc = "done"
  /\ dmPc' = "idle"
  /\ dmCmd' = NoCmd
  /\ dmFound' = NoDraft
  /\ dmReqs' = {}
  /\ dmOut' = NoEnd
  /\ UNCHANGED <<dmStore, dmCache>>
  /\ UNCHANGED notDm

DmNext ==
  \/ \E id \in DraftIds : updateDraft(id)
  \/ \E id \in DraftIds : deleteDraft(id)
  \/ ProviderListDrafts
  \/ ProviderMutation
  \/ \E id \in DraftIds, native \in BOOLEAN : CmdDraft(id, native)
  \/ \E id \in DraftIds : CmdDeleteDraft(id)
  \/ CliListDrafts
  \/ CliMutation
  \/ MailMutation
  \/ \E id \in DraftIds, thread \in ThreadIds \cup {NoThread} : CmdSendDraft(id, thread)
  \/ SendDraft
  \/ DmReturn

\* ---------------------------------------------------------------------------
\* Properties of draft mutations
\* ---------------------------------------------------------------------------
\* C12 (as claimed): every update or delete request sent to the native
\* backend carries the thread id that was looked up for that draft, in the
\* cache or in a fresh listing, and that thread id is defined.
C12_MutationOnlyWithResolvedThread ==
  \A r \in dmReqs :
    r.target = "native" =>
      /\ dmFound.known
      /\ dmFound.id = r.id
      /\ dmFound.thread = r.thread
      /\ r.thread # NoThread

\* C13 (as claimed): an update or delete of a draft id that was not found
\* ends in an error that is raised (a throw, or exit status 1) and sends no
\* mutation request.
C13_UnknownIdRaises ==
  (dmPc = "done" /\ dmOut.msg = "not found")
  => /\ dmOut.kind \in {"throw", "exit 1"}
     /\ dmReqs = {}

\* C14: every update or delete request of an operation is for the draft id
\* the operation was given and goes to one source: to the native backend
\* when the id starts with "draft00", to the mail provider otherwise; an
\* operation sends at most one request, and one that ends without an error
\* has sent one.
C14_DispatchByIdShape ==
  /\ \A r \in dmReqs :
       /\ r.id = dmCmd.id
       /\ r.target = (IF startsWith(r.id, NativePrefix) THEN "native" ELSE "mail")
  /\ Cardinality(dmReqs) <= 1
  /\ (dmPc = "done" /\ dmOut \in {End("ok", ""), End("exit 0", "")})
       => Cardinality(dmReqs) = 1

\* a draft whose id begins like a native id, but is not one, was deleted at
\* the mail provider
C14_Witness ==
  /\ dmPc = "done"
  /\ dmCmd.name = "draft delete"
  /\ dmCmd.id = <<"d", "r", "a", "f", "t", "1">>
  /\ dmReqs = {Request("mail", "deleteDraft", dmCmd.id, NoThread)}
  /\ dmOut = End("exit 0", "")

\* C30: the cache of the native draft provider changes only after a
\* backend call succeeded: a deleteDraft whose backend call returned has
\* removed that id from the cache, an updateDraft whose backend call returned
\* has stored the draft under that id, an update or delete whose backend
\* call throws leaves the cache as it was, and any other change of the cache
\* stores the drafts of a listing that succeeded.
ProviderMutates == dmPc = "mutate" /\ dmCmd.name \in ProviderOps /\ dmPc' = "done"

MaxPieces == 3        \* pieces a subject is put together from

\* what subjects are put together from: "Re: ", "re:", "Fwd: ", "FWD:", a
\* space and a letter
Pieces ==
  {<<"R", "e", ":", " ">>, <<"r", "e", ":">>, <<"F", "w", "d", ":", " ">>,
   <<"F", "W", "D", ":">>, <<" ">>, <<"x">>}

RECURSIVE Flatten(_)
Flatten(pieces) ==
  IF pieces = <<>> THEN <<>> ELSE Head(pieces) \o Flatten(Tail(pieces))

Subjects == {Flatten(p) : p \in UNION {[1 .. n -> Pieces] : n \in 0 .. MaxPieces}}

\* the i flag of the regular expressions: letters compared in lower case
Lower(c) ==
  CASE c = "R" -> "r" [] c = "E" -> "e" [] c = "F" -> "f"
    [] c = "W" -> "w" [] c = "D" -> "d" [] c = "A" -> "a"
    [] c = "M" -> "m" [] OTHER -> c
LowerStr(s) == [i \in 1 .. Len(s) |-> Lower(s[i])]

\* \s* at the head of s
RECURSIVE SkipSpaces(_)
SkipSpaces(s) ==
  IF s # <<>> /\ Head(s) = " " THEN SkipSpaces(Tail(s)) ELSE s

\* subject.replace(/^token\s*/i, "") for a token given in lower case
ReplacePrefix(subject, token) ==
  IF Len(subject) >= Len(token) /\ LowerStr(SubSeq(subject, 1, Len(token))) = token
    THEN SkipSpaces(SubSeq(subject, Len(token) + 1, Len(subject)))
    ELSE subject

\* reply.ts:51-54
stripRePrefix(subject) == ReplacePrefix(subject, <<"r", "e", ":">>)

\* reply.ts:59-62
stripFwdPrefix(subject) == ReplacePrefix(subject, <<"f", "w", "d", ":">>)

\* reply.ts:102-105
formatReplySubject(originalSubject) ==
  <<"R", "e", ":", " ">> \o stripRePrefix(originalSubject)

\* reply.ts:67-70
formatForwardSubject(originalSubject) ==
  <<"F", "w", "d", ":", " ">> \o stripFwdPrefix(originalSubject)

\* send-api.ts:1692-1695 (the same at send-api.ts:1135-1137 and
\* cli.ts:1637-1639, 1745-1747): the subject of sendReply
sendReplySubject(subject) ==
  IF startsWith(subject, <<"R", "e", ":">>)
    THEN subject ELSE <<"R", "e", ":", " ">> \o subject

\* cli.ts:1879-1881 (the same at part_010:217-219): the subject of a forward
forwardSubject(subject) ==
  IF startsWith(subject, <<"F", "w", "d", ":">>)
    THEN subject ELSE <<"F", "w", "d", ":", " ">> \o subject

SubjectOps == {"formatReplySubject", "formatForwardSubject", "sendReplySubject", "forwardSubject"}
ReplyOps == {"formatReplySubject", "sendReplySubject"}

SubjectOf(op, subject) ==
  CASE op = "formatReplySubject" -> formatReplySubject(subject)
    [] op = "formatForwardSubject" -> formatForwardSubject(subject)
    [] op = "sendReplySubject" -> sendReplySubject(subject)
    [] op = "forwardSubject" -> forwardSubject(subject)

SjInit ==
  /\ sjIn \in Subjects
  /\ sjOp = "none"
  /\ sjOut = <<>>

SjIdle ==
  /\ sjIn = <<>>
  /\ sjOp = "none"
  /\ sjOut = <<>>

\* the subject is built from the thread's subject; a reply to (a forward of)
\* the message so made builds it again from that result
BuildSubject(op) ==
  /\ sjOp \in {"none", op}
  /\ Len(sjOut) < 2
  /\ sjOp' = op
  /\ sjOut' = Append(sjOut, SubjectOf(op, IF sjOut = <<>> THEN sjIn ELSE sjOut[Len(sjOut)]))
  /\ UNCHANGED sjIn
  /\ UNCHANGED notSj

SjNext == \E op \in SubjectOps : BuildSubject(op)

\* C15: building the subject again from its own result changes nothing:
\* normalizing an already normalized reply subject gives the same subject,
\* and likewise for a forward, for every subject.
C15_SubjectIdempotent ==
  Len(sjOut) = 2 => sjOut[2] = sjOut[1]

\* the subject without any of its leading "Re:" / "Fwd:" tokens, in any
\* letter case and however many there are
RECURSIVE StripAllPrefixes(_)
StripAllPrefixes(subject) ==
  IF stripRePrefix(subject) # subject THEN StripAllPrefixes(stripRePrefix(subject))
  ELSE IF stripFwdPrefix(subject) # subject THEN StripAllPrefixes(stripFwdPrefix(subject))
  ELSE subject

\* C16: the subject of a reply is exactly one "Re: " followed by the
\* original subject without any of its leading "Re:" / "Fwd:" tokens; the
\* subject of a forward is exactly one "Fwd: " followed by the same.
C16_ExactlyOnePrefix ==
  Len(sjOut) >= 1 =>
    sjOut[1] = (IF sjOp \in ReplyOps THEN <<"R", "e", ":", " ">>
                                     ELSE <<"F", "w", "d", ":", " ">>)
               \o StripAllPrefixes(sjIn)

\* ---------------------------------------------------------------------------
\* Recipients of a reply
\* ---------------------------------------------------------------------------
MaxTo == 2            \* To addresses of the last message
MaxCc == 1            \* Cc addresses of the last message

a_x == <<"a", "@", "x">>
A_x == <<"A", "@", "x">>
b_x == <<"b", "@", "x">>
me_x == <<"m", "e", "@", "x">>
ME_x == <<"M", "E", "@", "x">>
Addrs == {a_x, A_x, b_x, me_x, ME_x}
NoAddr == <<>>        \* no address: null, or the empty string of read.ts:63

toLowerCase(email) == LowerStr(email)

SeqsUpTo(S, n) == UNION {[1 .. k -> S] : k \in 0 .. n}

\* send-api.ts:675-700: what getThreadInfoForReply returns of the last
\* message; allTo and allCc hold no empty address (filter(Boolean))
Snapshots ==
  [replyTo : Addrs \cup {NoAddr}, allTo : SeqsUpTo(Addrs, MaxTo),
   allCc : SeqsUpTo(Addrs, MaxCc), myEmail : {me_x, ME_x}]

\* options.cc: none, or one address of the caller's
OptionCcs == {<<>>, <<b_x>>}

NoReply == [status |-> "none", to |-> <<>>, cc |-> <<>>]
Reply(to, cc) == [status |-> "ok", to |-> to, cc |-> cc]
ReplyError == [status |-> "error", to |-> <<>>, cc |-> <<>>]

includes(list, x) == \E i \in 1 .. Len(list) : list[i] = x

\* send-api.ts:1706-1710: for (const email of allTo) if
\* (email.toLowerCase() !== myEmail && !toRecipients.includes(email)) push,
\* myEmail in lower case
RECURSIVE PushOthersLower(_, _, _)
PushOthersLower(list, emails, myEmail) ==
  IF emails = <<>> THEN list
  ELSE LET email == Head(emails) IN
    PushOthersLower(
      IF toLowerCase(email) # myEmail /\ ~includes(list, email)
        THEN Append(list, email) ELSE list,
      Tail(emails), myEmail)

\* send-api.ts:1110-1121: for (const email of ...) if
\* (email !== threadInfo.myEmail && !list.includes(email)) push
RECURSIVE PushOthers(_, _, _)
PushOthers(list, emails, myEmail) ==
  IF emails = <<>> THEN list
  ELSE LET email == Head(emails) IN
    PushOthers(
      IF email # myEmail /\ ~includes(list, email)
        THEN Append(list, email) ELSE list,
      Tail(emails), myEmail)

\* [...new Set(list)]: the first occurrences, in order
RECURSIVE Unique(_)
Unique(list) ==
  IF list = <<>> THEN <<>>
  ELSE LET front == Unique(SubSeq(list, 1, Len(list) - 1))
           last == list[Len(list)] IN
    IF includes(front, last) THEN front ELSE Append(front, last)

Map(list, f(_)) == [i \in 1 .. Len(list) |-> f(list[i])]

\* send-api.ts:1687-1727, the Gmail flow of sendReply
sendReplyRecipients(threadInfo, cc, replyAll) ==
  IF threadInfo.replyTo = NoAddr THEN ReplyError
  ELSE IF replyAll THEN
    LET myEmail == toLowerCase(threadInfo.myEmail)
        toRecipients == PushOthersLower(<<threadInfo.replyTo>>, threadInfo.allTo, myEmail)
        toSet == {toLowerCase(toRecipients[i]) : i \in 1 .. Len(toRecipients)}
        additionalCc ==
          SelectSeq(threadInfo.allCc,
                    LAMBDA email : toLowerCase(email) # myEmail
                                   /\ toLowerCase(email) \notin toSet)
    IN Reply(toRecipients, IF Len(additionalCc) > 0 THEN cc \o additionalCc ELSE cc)
  ELSE Reply(<<threadInfo.replyTo>>, cc)

\* send-api.ts:1102-1132, the recipients of createReplyDraftGmail
createReplyDraftGmailRecipients(threadInfo, optCc, replyAll) ==
  LET sender == IF threadInfo.replyTo # NoAddr THEN <<threadInfo.replyTo>> ELSE <<>>
      to == IF replyAll THEN PushOthers(sender, threadInfo.allTo, threadInfo.myEmail)
                        ELSE sender
      cc == IF replyAll THEN PushOthers(optCc, threadInfo.allCc, threadInfo.myEmail)
                        ELSE optCc
  IN IF Len(to) = 0 THEN ReplyError ELSE Reply(to, cc)

\* reply.ts:216-243, the recipients of replyAllToThread: the sender in To,
\* everybody else of To and Cc in Cc
replyAllToThreadRecipients(lastMessage, currentEmail) ==
  LET allOriginalRecipients == lastMessage.allTo \o lastMessage.allCc
      ccRecipients ==
        SelectSeq(allOriginalRecipients,
                  LAMBDA r : Len(r) > 0 /\ r # currentEmail /\ r # lastMessage.replyTo)
  IN Reply(<<lastMessage.replyTo>>, ccRecipients)

\* cli.ts:1749-1757 (again at 1797-1805), the recipients of cmdReplyAll on
\* cached credentials: everybody but the account in To, in lower case
cmdReplyAllRecipients(threadInfo, tokenEmail) ==
  LET allRecipients ==
        SelectSeq(<<threadInfo.replyTo>> \o threadInfo.allTo \o threadInfo.allCc,
                  LAMBDA email : email # NoAddr
                                 /\ toLowerCase(email) # toLowerCase(tokenEmail))
      uniqueRecipients == Unique(Map(allRecipients, toLowerCase))
  IN Reply(uniqueRecipients, <<>>)

NoOp == [fn |-> "none", replyAll |-> FALSE]
Op(fn, replyAll) == [fn |-> fn, replyAll |-> replyAll]

ThInit ==
  /\ thSnap \in Snapshots
  /\ thOptCc \in OptionCcs
  /\ thCallerCc = thOptCc
  /\ thOp = NoOp
  /\ thOut = NoReply

ThIdle ==
  /\ thSnap = [replyTo |-> NoAddr, allTo |-> <<>>, allCc |-> <<>>, myEmail |-> me_x]
  /\ thOptCc = <<>>
  /\ thCallerCc = <<>>
  /\ thOp = NoOp
  /\ thOut = NoReply

Built(fn, replyAll, result) ==
  /\ thOp' = Op(fn, replyAll)
  /\ thOut' = result
  /\ UNCHANGED <<thSnap, thOptCc>>
  /\ UNCHANGED notTh

sendReply(replyAll) ==
  /\ thOp = NoOp
  /\ UNCHANGED thCallerCc
  /\ Built("sendReply", replyAll, sendReplyRecipients(thSnap, thOptCc, replyAll))

\* send-api.ts:1104 and 1116-1121: cc is the caller's array when one was
\* given, and the addresses are pushed into it
CallerCcAfter(threadInfo, optCc, replyAll) ==
  IF replyAll /\ optCc # <<>>
    THEN PushOthers(optCc, threadInfo.allCc, threadInfo.myEmail) ELSE optCc

createReplyDraftGmail(replyAll) ==
  /\ thOp = NoOp
  /\ thCallerCc' = CallerCcAfter(thSnap, thCallerCc, replyAll)
  /\ Built("createReplyDraftGmail", replyAll,
           createReplyDraftGmailRecipients(thSnap, thOptCc, replyAll))

\* replyAllToThread and cmdReplyAll take no cc of the caller's
replyAllToThread ==
  /\ thOp = NoOp
  /\ UNCHANGED thCallerCc
  /\ thOptCc = <<>>
  /\ Built("replyAllToThread", TRUE, replyAllToThreadRecipients(thSnap, thSnap.myEmail))

cmdReplyAll ==
  /\ thOp = NoOp
  /\ UNCHANGED thCallerCc
  /\ thOptCc = <<>>
  /\ Built("cmdReplyAll", TRUE, cmdReplyAllRecipients(thSnap, thSnap.myEmail))

ThNext ==
  \/ \E replyAll \in BOOLEAN : sendReply(replyAll)
  \/ \E replyAll \in BOOLEAN : createReplyDraftGmail(replyAll)
  \/ replyAllToThread
  \/ cmdReplyAll

RepliedAll == thOp.replyAll /\ thOut.status = "ok"
Recipients == Range(thOut.to) \cup Range(thOut.cc)

\* C17: the sender's own address, compared without regard to letter case,
\* is never in the to list or the cc list computed for a reply-all.
C17_SelfNeverRecipient ==
  RepliedAll =>
    \A email \in Recipients : toLowerCase(email) # toLowerCase(thSnap.myEmail)

\* C18: in the recipients computed for a reply-all no address is in both
\* the to list and the cc list.
C18_ToAndCcDisjoint ==
  RepliedAll => Range(thOut.to) \cap Range(thOut.cc) = {}

\* the addresses of list without those that are self and without those an
\* earlier one equals, letter case set aside
RECURSIVE DedupeMinusSelf(_, _)
DedupeMinusSelf(list, self) ==
  IF list = <<>> THEN <<>>
  ELSE LET front == DedupeMinusSelf(SubSeq(list, 1, Len(list) - 1), self)
           last == list[Len(list)] IN
    IF toLowerCase(last) = toLowerCase(self)
       \/ includes(Map(front, toLowerCase), toLowerCase(last))
      THEN front ELSE Append(front, last)

\* C19: for a reply-all, to is the reply-to address followed by the
\* original To addresses, without the sender's own address and without
\* duplicates (letter case set aside), and the original Cc addresses go to
\* cc and not to: cc holds the caller's cc and addresses of the original Cc
\* only, and every original Cc address that is neither self nor in to.
C19_ReplyAllRecipients ==
  RepliedAll =>
    /\ thOut.to = DedupeMinusSelf((IF thSnap.replyTo = NoAddr THEN <<>> ELSE <<thSnap.replyTo>>)
                                  \o thSnap.allTo, thSnap.myEmail)
    /\ Range(thOut.cc) \subseteq Range(thOptCc) \cup Range(thSnap.allCc)
    /\ \A email \in Range(thSnap.allCc) :
         \/ toLowerCase(email) = toLowerCase(thSnap.myEmail)
         \/ toLowerCase(email) \in Range(Map(thOut.to, toLowerCase))
         \/ email \in Range(thOut.cc)

\* C21: a reply or reply-all on a thread for which no sender address can be
\* determined fails with an error and dispatches nothing.
C21_NoSenderFails ==
  (thOp # NoOp /\ thSnap.replyTo = NoAddr) => thOut = ReplyError

\* C22: for the same thread and mode every dispatch path (direct send,
\* reply-draft creation, the command on cached credentials) uses the same
\* to list and cc list: whichever path built the reply-all, its result is
\* what each of the other paths computes.
C22_SameRecipientsOnEveryPath ==
  (thOp # NoOp /\ thOp.replyAll /\ thOptCc = <<>>) =>
    /\ thOut = sendReplyRecipients(thSnap, thOptCc, TRUE)
    /\ thOut = createReplyDraftGmailRecipients(thSnap, thOptCc, TRUE)
    /\ thOut = cmdReplyAllRecipients(thSnap, thSnap.myEmail)

\* the caller's cc list is the same after the call as before it
CallerCcNotModified ==
  thOp # NoOp => thCallerCc = thOptCc

\* ---------------------------------------------------------------------------
\* References of a reply
\* ---------------------------------------------------------------------------
MaxRefs == 3          \* message ids in the References of the last message

MessageIds == {"m1", "m2", "m3"}
NoId == ""            \* null

\* rawJson.references: an array of ids, one id as a string, or nothing; and
\* the thread without a last message
RawRefs ==
  {[kind |-> "array", v |-> r] : r \in SeqsUpTo(MessageIds, MaxRefs)}
    \cup {[kind |-> "string", v |-> <<id>>] : id \in MessageIds}
    \cup {[kind |-> "none", v |-> <<>>]}
NoMessage == [kind |-> "no message", v |-> <<>>]

\* send-api.ts:682-684: the array itself, the string in an array, or []
existingRefs(raw) == raw.v

references_AlwaysPush(raw, lastMessageId) ==
  IF lastMessageId # NoId
    THEN Append(existingRefs(raw), lastMessageId) ELSE existingRefs(raw)

\* send-api.ts:682-689
references(raw, lastMessageId) ==
  IF lastMessageId # NoId /\ ~includes(existingRefs(raw), lastMessageId)
    THEN Append(existingRefs(raw), lastMessageId) ELSE existingRefs(raw)

RfInit ==
  /\ rfRaw \in RawRefs \cup {NoMessage}
  /\ rfStored = rfRaw
  /\ rfLast \in IF rfRaw = NoMessage THEN {NoId} ELSE MessageIds \cup {NoId}
  /\ rfDone = FALSE
  /\ rfOut = <<>>

RfIdle ==
  /\ rfRaw = NoMessage
  /\ rfStored = NoMessage
  /\ rfLast = NoId
  /\ rfDone = FALSE
  /\ rfOut = <<>>

\* send-api.ts:683-688: references is the stored array itself when
\* rawJson.references is an array, so the push changes the stored array
StoredAfter(raw, lastMessageId) ==
  IF raw.kind = "array" THEN [raw EXCEPT !.v = references(raw, lastMessageId)] ELSE raw

\* send-api.ts:650-718; null (no references) for a thread without messages
getThreadInfoForReply ==
  /\ ~rfDone
  /\ rfDone' = TRUE
  /\ rfOut' = IF rfRaw = NoMessage THEN <<>> ELSE references(rfRaw, rfLast)
  /\ rfStored' = StoredAfter(rfStored, rfLast)
  /\ UNCHANGED <<rfRaw, rfLast>>
  /\ UNCHANGED notRf

RfNext == getThreadInfoForReply

Computed == rfDone /\ rfRaw # NoMessage
Count(list, x) == Cardinality({i \in 1 .. Len(list) : list[i] = x})
IsPrefix(p, list) == Len(p) <= Len(list) /\ SubSeq(list, 1, Len(p)) = p

\* C20 as stated: the references of a reply are the input references in
\* their order, followed by lastMessageId only if it was not among them;
\* the list is never shorter than the input and never holds lastMessageId
\* twice.
C20_ReferencesAppendOnce ==
  Computed =>
    /\ rfOut = existingRefs(rfRaw)
                 \o (IF rfLast # NoId /\ ~includes(existingRefs(rfRaw), rfLast)
                       THEN <<rfLast>> ELSE <<>>)
    /\ Len(rfOut) >= Len(existingRefs(rfRaw))
    /\ Count(rfOut, rfLast) <= 1

\* C20 as the code has it: the references of a reply are the input
\* references in their order, followed by lastMessageId only if it was not
\* among them; the list is never shorter than the input, and lastMessageId
\* is in it as often as in the input, or once if the input did not hold it.
C20_ReferencesAppendIfAbsent ==
  Computed =>
    /\ IsPrefix(existingRefs(rfRaw), rfOut)
    /\ Len(rfOut) <= Len(existingRefs(rfRaw)) + 1
    /\ rfLast # NoId =>
         /\ Count(rfOut, rfLast) >= 1
         /\ Count(rfOut, rfLast) =
              (IF Count(existingRefs(rfRaw), rfLast) = 0
                 THEN 1 ELSE Count(existingRefs(rfRaw), rfLast))
    /\ rfLast = NoId => rfOut = existingRefs(rfRaw)

\* lastMessageId was among two or more references and was not added
C20_Witness ==
  /\ Computed
  /\ rfLast # NoId
  /\ Len(existingRefs(rfRaw)) >= 2
  /\ includes(existingRefs(rfRaw), rfLast)
  /\ rfOut = existingRefs(rfRaw)

\* C29: computing the threading metadata of a reply does not modify its
\* input: the thread's stored references list is the same after the call
\* as before it.
C29_StoredReferencesNotModified ==
  rfDone => rfStored = rfRaw

\* ---------------------------------------------------------------------------
\* Dispatch of a reply by sendReply
\* ---------------------------------------------------------------------------

\* send-api.ts:59-86: what getAccountInfo returns
AccountInfos == {"null", "google", "microsoft"}

\* send-api.ts:762-811: what sendReplyMsgraph finds in the page before its
\* first request
MsgraphSetups == {"no msgraph", "no fetch", "no thread", "no message id", "ready"}

\* send-api.ts:1682-1690: what getThreadInfoForReply gives the Gmail flow
ThreadInfos == {"null", "no replyTo", "ok"}

MsEnvs ==
  [account : AccountInfos, replyAll : BOOLEAN, setup : MsgraphSetups,
   threadInfo : ThreadInfos]

NoSendResult == [success |-> FALSE, error |-> "none"]
Failure(error) == [success |-> FALSE, error |-> error]
Success == [success |-> TRUE, error |-> ""]

Called(endpoint, headers, outcome) ==
  [endpoint |-> endpoint, headers |-> headers, outcome |-> outcome]

ReplyFlow_AlwaysGmail(accountInfo) == "gmail"

\* send-api.ts:1673-1679: accountInfo?.isMicrosoft
ReplyFlow(accountInfo) ==
  IF accountInfo = "microsoft" THEN "msgraph" ELSE "gmail"

MsInit ==
  /\ msEnv \in MsEnvs
  /\ msPc = "idle"
  /\ msCalls = <<>>
  /\ msOut = NoSendResult

MsIdle ==
  /\ msEnv = [account |-> "null", replyAll |-> FALSE, setup |-> "no msgraph",
              threadInfo |-> "null"]
  /\ msPc = "off"
  /\ msCalls = <<>>
  /\ msOut = NoSendResult

MsEnd(result) ==
  /\ msPc' = "done"
  /\ msOut' = result

\* send-api.ts:1662-1690 with 750-811: up to the first request
SendReplyDispatch ==
  /\ msPc = "idle"
  /\ IF ReplyFlow(msEnv.account) = "msgraph"
       THEN IF msEnv.setup = "ready"
              THEN msPc' = "createReply" /\ msOut' = msOut
              ELSE MsEnd(Failure(msEnv.setup))
       ELSE IF msEnv.threadInfo = "ok"
              THEN msPc' = "sendEmailGmail" /\ msOut' = msOut
              ELSE MsEnd(Failure(msEnv.threadInfo))
  /\ UNCHANGED <<msEnv, msCalls>>
  /\ UNCHANGED notMs

\* send-api.ts:813-831: POST createReply or createReplyAll; no id in the
\* response, or an exception, ends the flow
MsgraphCreateReply(outcome) ==
  /\ msPc = "createReply"
  /\ msCalls' = Append(msCalls,
       Called(IF msEnv.replyAll THEN "createReplyAll" ELSE "createReply", FALSE, outcome))
  /\ IF outcome = "id" THEN msPc' = "patch" /\ msOut' = msOut
                       ELSE MsEnd(Failure(outcome))
  /\ UNCHANGED msEnv
  /\ UNCHANGED notMs

\* send-api.ts:833-866: PATCH the body of the draft; an exception ends the flow
MsgraphPatch(outcome) ==
  /\ msPc = "patch"
  /\ msCalls' = Append(msCalls, Called("PATCH", FALSE, outcome))
  /\ IF outcome = "returned" THEN msPc' = "send" /\ msOut' = msOut
                             ELSE MsEnd(Failure(outcome))
  /\ UNCHANGED msEnv
  /\ UNCHANGED notMs

\* send-api.ts:868-895: POST send of the draft
MsgraphSend(outcome) ==
  /\ msPc = "send"
  /\ msCalls' = Append(msCalls, Called("send", FALSE, outcome))
  /\ MsEnd(IF outcome \in {"ok", "202"} THEN Success ELSE Failure(outcome))
  /\ UNCHANGED msEnv
  /\ UNCHANGED notMs

\* send-api.ts:97-215 called at 1725-1740: the message with In-Reply-To and
\* References headers posted to Gmail, unless the page has no gmail service
SendEmailGmail(outcome) ==
  /\ msPc = "sendEmailGmail"
  /\ msCalls' = IF outcome = "no gmail" THEN msCalls
                ELSE Append(msCalls, Called("gmail.send", TRUE, outcome))
  /\ MsEnd(IF outcome = "ok" THEN Success ELSE Failure(outcome))
  /\ UNCHANGED msEnv
  /\ UNCHANGED notMs

MsNext ==
  \/ SendReplyDispatch
  \/ \E outcome \in {"id", "no id", "threw"} : MsgraphCreateReply(outcome)
  \/ \E outcome \in {"returned", "threw"} : MsgraphPatch(outcome)
  \/ \E outcome \in {"ok", "202", "500", "threw"} : MsgraphSend(outcome)
  \/ \E outcome \in {"no gmail", "ok", "threw"} : SendEmailGmail(outcome)

CreateEndpoints == {"createReply", "createReplyAll"}

AccountLists == {<<>>, <<"a@x.com">>, <<"a@x.com", "b@x.com">>, <<"b@x.com", "a@x.com">>}

\* the token file before the command: records of some accounts, as loaded
TokenFileStates == UNION {[S -> {0}] : S \in SUBSET Accounts}

\* saveTokensToDisk: the full cache is written to the file
saveTokensToDisk(mem) == mem

\* read.ts:304-328  what a getToken call does to the cache: nothing on a
\* cache hit or a failed extraction, a new record on a refresh
AfterGetToken(mem, email, outcome) ==
  IF outcome = "extracted" THEN MapSet(mem, email, 1) ELSE mem

GetTokenOutcomes(mem, email) ==
  {"extracted", "threw"} \cup (IF email \in DOMAIN mem THEN {"cached"} ELSE {})

\* loadTokensFromDisk at process start: the cache is what the file holds
AuInit ==
  /\ auAccounts \in AccountLists
  /\ auDisk \in TokenFileStates
  /\ auMem = auDisk
  /\ auPc = "idle"
  /\ auLeft = <<>>
  /\ auOut = "none"

AuIdle ==
  /\ auAccounts = <<>>
  /\ auDisk = <<>>
  /\ auMem = <<>>
  /\ auPc = "off"
  /\ auLeft = <<>>
  /\ auOut = "none"

\* cli.ts:2510-2519  checkConnection and listAccounts: with a connection and
\* at least one account the Electron path, otherwise the Chrome path
cmdAuth(conn) ==
  /\ auPc = "idle"
  /\ IF conn /\ auAccounts # <<>>
       THEN auPc' = "loop" /\ auLeft' = auAccounts
       ELSE auPc' = "chrome" /\ auLeft' = auLeft
  /\ UNCHANGED <<auAccounts, auMem, auDisk, auOut>>
  /\ UNCHANGED notAu

\* cli.ts:2521-2524 and 2531-2533  one turn of the loop: getToken for the
\* next account; an exception leaves the loop for the Chrome path
AuthGetToken(outcome) ==
  /\ auPc = "loop"
  /\ auLeft # <<>>
  /\ outcome \in GetTokenOutcomes(auMem, Head(auLeft))
  /\ auMem' = AfterGetToken(auMem, Head(auLeft), outcome)
  /\ IF outcome = "threw"
       THEN auPc' = "chrome" /\ auLeft' = <<>>
       ELSE auPc' = "loop" /\ auLeft' = Tail(auLeft)
  /\ UNCHANGED <<auAccounts, auDisk, auOut>>
  /\ UNCHANGED notAu

\* cli.ts:2525-2530  after the last account
AuthSave ==
  /\ auPc = "loop"
  /\ auLeft = <<>>
  /\ auDisk' = saveTokensToDisk(auMem)
  /\ auPc' = "done"
  /\ auOut' = "saved"
  /\ UNCHANGED <<auAccounts, auLeft, auMem>>
  /\ UNCHANGED notAu

\* cli.ts:2537-2544  no Chrome connection: exit 1
ChromeExit ==
  /\ auPc = "chrome"
  /\ auPc' = "done"
  /\ auOut' = "exit 1"
  /\ UNCHANGED <<auAccounts, auLeft, auMem, auDisk>>
  /\ UNCHANGED notAu

\* cli.ts:2546-2570  the Chrome path: extractTokenChrome for each account
\* it lists, failures skipped, then saveTokensToDisk
ChromeSave(extracted) ==
  /\ auPc = "chrome"
  /\ auMem' = [e \in DOMAIN auMem \cup extracted |-> IF e \in extracted THEN 1 ELSE auMem[e]]
  /\ auDisk' = saveTokensToDisk(auMem')
  /\ auPc' = "done"
  /\ auOut' = "saved from Chrome"
  /\ UNCHANGED <<auAccounts, auLeft>>
  /\ UNCHANGED notAu

\* read.ts:112-123  getCurrentToken, the getToken call of a command that
\* reads mail: the token is used, nothing is written to the file
getCurrentToken(outcome) ==
  /\ auPc = "idle"
  /\ auAccounts # <<>>
  /\ outcome \in GetTokenOutcomes(auMem, Head(auAccounts))
  /\ auMem' = AfterGetToken(auMem, Head(auAccounts), outcome)
  /\ auPc' = "done"
  /\ auOut' = outcome
  /\ UNCHANGED <<auAccounts, auLeft, auDisk>>
  /\ UNCHANGED notAu

AuNext ==
  \/ \E conn \in BOOLEAN : cmdAuth(conn)
  \/ \E outcome \in {"cached", "extracted", "threw"} : AuthGetToken(outcome)
  \/ AuthSave
  \/ ChromeExit
  \/ \E extracted \in SUBSET Accounts : ChromeSave(extracted)
  \/ \E outcome \in {"cached", "extracted", "threw"} : getCurrentToken(outcome)

\* the records of the cache that the file does not hold
Unsaved ==
  {e \in DOMAIN auMem : e \notin DOMAIN auDisk \/ auDisk[e] # auMem[e]}

\* C24: after every successful refresh the full cache is persisted to its
\* file: when the next getToken call starts, and when the command has
\* ended, every record obtained by a refresh is in the file.
C24_PersistAfterEveryRefresh ==
  (auPc = "done" \/ (auPc = "loop" /\ auLeft # <<>>)) => Unsaved = {}

\* ---------------------------------------------------------------------------
\* Replies and forwards driven through the compose form
\* ---------------------------------------------------------------------------
MaxCcAdds == 2        \* Cc recipients replyAllToThread has to add

FlowFns == {"replyToThread", "replyAllToThread", "forwardThread"}

FlowInputs ==
  {in \in [fn : FlowFns, send : BOOLEAN, cc : 0 .. MaxCcAdds, body : BOOLEAN] :
     /\ in.fn # "replyAllToThread" => in.cc = 0
     /\ in.fn # "forwardThread" => in.body}

\* the steps of a flow before its send or save, in the order of the code:
\* reply.ts:116-165 (replyToThread), reply.ts:189-260 (replyAllToThread, one
\* addCcRecipient for each Cc recipient), part_010:187-216 (forwardThread:
\* setBody only with a body, getThreadInfoForReply only when sending)
FlowSteps(in) ==
  CASE in.fn = "replyToThread" ->
         <<"readThread", "openCompose", "addRecipient", "setSubject", "setBody">>
    [] in.fn = "replyAllToThread" ->
         <<"readThread", "openCompose", "addRecipient">>
           \o [i \in 1 .. in.cc |-> "addCcRecipient"]
           \o <<"setSubject", "setBody">>
    [] in.fn = "forwardThread" ->
         <<"openForwardCompose", "addRecipient">>
           \o (IF in.body THEN <<"setBody">> ELSE <<>>)
           \o (IF in.send THEN <<"getThreadInfoForReply">> ELSE <<>>)

\* reply.ts:241-243: the result of addCcRecipient is not looked at; every
\* other step returns { success: false } when it fails
Checked(step) == step # "addCcRecipient"

Step(name, ok) == [name |-> name, ok |-> ok]

FlInit ==
  /\ flIn \in FlowInputs
  /\ flDone = <<>>
  /\ flFinal = "none"
  /\ flOut = "none"

FlIdle ==
  /\ flIn = [fn |-> "replyToThread", send |-> FALSE, cc |-> 0, body |-> TRUE]
  /\ flDone = <<>>
  /\ flFinal = "none"
  /\ flOut = "off"

\* one step of the flow: a failed step that is checked ends the flow
FlowStep(ok) ==
  /\ flOut = "none"
  /\ Len(flDone) < Len(FlowSteps(flIn))
  /\ LET name == FlowSteps(flIn)[Len(flDone) + 1] IN
       /\ flDone' = Append(flDone, Step(name, ok))
       /\ flOut' = IF ~ok /\ Checked(name) THEN "failure" ELSE "none"
  /\ UNCHANGED <<flIn, flFinal>>
  /\ UNCHANGED notFl

\* reply.ts:167-174, 262-269, part_010:218-257: sendDraft / sendEmail or
\* saveDraft, whose result is the result of the flow
FlowFinish(ok) ==
  /\ flOut = "none"
  /\ Len(flDone) = Len(FlowSteps(flIn))
  /\ flFinal' = IF flIn.send THEN "send" ELSE "save"
  /\ flOut' = IF ok THEN "success" ELSE "failure"
  /\ UNCHANGED <<flIn, flDone>>
  /\ UNCHANGED notFl

FlNext ==
  \/ \E ok \in BOOLEAN : FlowStep(ok)
  \/ \E ok \in BOOLEAN : FlowFinish(ok)

AStepFailed == \E i \in 1 .. Len(flDone) : ~flDone[i].ok

\* C27: in the client-driven reply, reply-all and forward flows send or save
\* is invoked only after every earlier step has succeeded; if any step
\* fails the flow returns success=false and nothing is sent or saved.
C27_SendOnlyAfterAllStepsSucceeded ==
  /\ flFinal # "none" => ~AStepFailed /\ Len(flDone) = Len(FlowSteps(flIn))
  /\ (AStepFailed /\ flOut \notin {"none", "off"}) => flOut = "failure" /\ flFinal = "none"

\* ---------------------------------------------------------------------------
\* withRetry
\* ---------------------------------------------------------------------------
MaxRetries == 4       \* the largest maxRetries tried

BaseDelays == {1, 2, 500}
DraftKeys == {"draft1", "draft2"}     \* what fn returns when it is not null
RetryInputs == [maxRetries : 0 .. MaxRetries, baseDelay : BaseDelays]

RECURSIVE Pow2(_)
Pow2(n) == IF n = 0 THEN 1 ELSE 2 * Pow2(n - 1)

MoreAttempts_OneMore(attempt, maxRetries) == attempt <= maxRetries

\* part_010:49  attempt < maxRetries
MoreAttempts(attempt, maxRetries) == attempt < maxRetries

\* part_010:55  baseDelay * Math.pow(2, attempt)
Delay(baseDelay, attempt) == baseDelay * Pow2(attempt)

WrInit ==
  /\ wrIn \in RetryInputs
  /\ wrAttempt = 0
  /\ wrPc = "call"
  /\ wrResults = <<>>
  /\ wrSlept = <<>>
  /\ wrOut = "none"

WrIdle ==
  /\ wrIn = [maxRetries |-> 0, baseDelay |-> 1]
  /\ wrAttempt = 0
  /\ wrPc = "off"
  /\ wrResults = <<>>
  /\ wrSlept = <<>>
  /\ wrOut = "none"

\* part_010:49-53  one turn of the loop up to its return: fn is invoked; a
\* result that is not null is returned, an exception goes to the caller
WithRetryCall(result) ==
  /\ wrPc = "call"
  /\ MoreAttempts(wrAttempt, wrIn.maxRetries)
  /\ wrResults' = Append(wrResults, result)
  /\ IF result # "null"
       THEN wrPc' = "done" /\ wrOut' = result /\ wrAttempt' = wrAttempt
       ELSE IF wrAttempt < wrIn.maxRetries - 1
              THEN wrPc' = "sleep" /\ wrOut' = wrOut /\ wrAttempt' = wrAttempt
              ELSE wrPc' = "call" /\ wrOut' = wrOut /\ wrAttempt' = wrAttempt + 1
  /\ UNCHANGED <<wrIn, wrSlept>>
  /\ UNCHANGED notWr

\* part_010:54-57  the delay before the next attempt
WithRetrySleep ==
  /\ wrPc = "sleep"
  /\ wrSlept' = Append(wrSlept, Delay(wrIn.baseDelay, wrAttempt))
  /\ wrAttempt' = wrAttempt + 1
  /\ wrPc' = "call"
  /\ UNCHANGED <<wrIn, wrResults, wrOut>>
  /\ UNCHANGED notWr

\* part_010:59  the loop is over: return null
WithRetryGiveUp ==
  /\ wrPc = "call"
  /\ ~MoreAttempts(wrAttempt, wrIn.maxRetries)
  /\ wrPc' = "done"
  /\ wrOut' = "null"
  /\ UNCHANGED <<wrIn, wrAttempt, wrResults, wrSlept>>
  /\ UNCHANGED notWr

WrNext ==
  \/ \E result \in {"null", "threw"} \cup DraftKeys : WithRetryCall(result)
  \/ WithRetrySleep
  \/ WithRetryGiveUp

Nulls(results) == Cardinality({i \in 1 .. Len(results) : results[i] = "null"})

\* C28: withRetry invokes its function at most maxRetries times, returns
\* the first result that is not null without invoking it again, returns
\* null only after maxRetries null results, and always terminates.
C28_WithRetryBounded ==
  /\ [](/\ Len(wrResults) <= wrIn.maxRetries
        /\ \A i \in 1 .. Len(wrResults) - 1 : wrResults[i] = "null"
        /\ (wrPc = "done" /\ wrOut # "null") =>
              wrOut = wrResults[Len(wrResults)]
        /\ (wrPc = "done" /\ wrOut = "null") =>
              Len(wrResults) = wrIn.maxRetries /\ Nulls(wrResults) = wrIn.maxRetries
        /\ wrPc # "done" => Nulls(wrResults) = Len(wrResults))
  /\ <>(wrPc \in {"done", "off"})

\* three attempts all gave null: null is returned after two delays
C28_Witness ==
  /\ wrPc = "done"
  /\ wrOut = "null"
  /\ wrIn.maxRetries = 3
  /\ Len(wrResults) = 3
  /\ wrSlept = <<wrIn.baseDelay, 2 * wrIn.baseDelay>>

\* ---------------------------------------------------------------------------
\* Specifications
\* ---------------------------------------------------------------------------
InitCred == CredInit /\ ResIdle /\ DsIdle /\ DmIdle /\ SjIdle /\ ThIdle /\ RfIdle /\ MsIdle /\ AuIdle /\ FlIdle /\ WrIdle
SpecCred == InitCred /\ [][CredNext]_vars

InitResolve == CredInit /\ ResInit /\ DsIdle /\ DmIdle /\ SjIdle /\ ThIdle /\ RfIdle /\ MsIdle /\ AuIdle /\ FlIdle /\ WrIdle
SpecResolve == InitResolve /\ [][ResNext]_vars /\ WF_vars(ResProgram)

InitDrafts == CredInit /\ ResIdle /\ DsInit /\ DmIdle /\ SjIdle /\ ThIdle /\ RfIdle /\ MsIdle /\ AuIdle /\ FlIdle /\ WrIdle
SpecDrafts == InitDrafts /\ [][DsNext]_vars

InitMutate == CredInit /\ ResIdle /\ DsIdle /\ DmInit /\ SjIdle /\ ThIdle /\ RfIdle /\ MsIdle /\ AuIdle /\ FlIdle /\ WrIdle
SpecMutate == InitMutate /\ [][DmNext]_vars
InitSubject == CredInit /\ ResIdle /\ DsIdle /\ DmIdle /\ SjInit /\ ThIdle /\ RfIdle /\ MsIdle /\ AuIdle /\ FlIdle /\ WrIdle
SpecSubject == InitSubject /\ [][SjNext]_vars
InitThread == CredInit /\ ResIdle /\ DsIdle /\ DmIdle /\ SjIdle /\ ThInit /\ RfIdle /\ MsIdle /\ AuIdle /\ FlIdle /\ WrIdle
SpecThread == InitThread /\ [][ThNext]_vars
InitReferences == CredInit /\ ResIdle /\ DsIdle /\ DmIdle /\ SjIdle /\ ThIdle /\ RfInit /\ MsIdle /\ AuIdle /\ FlIdle /\ WrIdle
SpecReferences == InitReferences /\ [][RfNext]_vars
InitDispatch == CredInit /\ ResIdle /\ DsIdle /\ DmIdle /\ SjIdle /\ ThIdle /\ RfIdle /\ MsInit /\ AuIdle /\ FlIdle /\ WrIdle
SpecDispatch == InitDispatch /\ [][MsNext]_vars
InitAuth == CredInit /\ ResIdle /\ DsIdle /\ DmIdle /\ SjIdle /\ ThIdle /\ RfIdle /\ MsIdle /\ AuInit /\ FlIdle /\ WrIdle
SpecAuth == InitAuth /\ [][AuNext]_vars
InitFlow == CredInit /\ ResIdle /\ DsIdle /\ DmIdle /\ SjIdle /\ ThIdle /\ RfIdle /\ MsIdle /\ AuIdle /\ FlInit /\ WrIdle
SpecFlow == InitFlow /\ [][FlNext]_vars
InitRetry == CredInit /\ ResIdle /\ DsIdle /\ DmIdle /\ SjIdle /\ ThIdle /\ RfIdle /\ MsIdle /\ AuIdle /\ FlIdle /\ WrInit
SpecRetry == InitRetry /\ [][WrNext]_vars /\ WF_vars(WrNext)
====
